---- MODULE Spec2Model ----
(***************************************************************************)
(* A model of the Pippin task-graph execution engine.                      *)
(*                                                                         *)
(*   Part 1  Manager.execute (src/pippin/manager.py): the scheduler loop,  *)
(*           its three lists and the admission check against max_jobs.     *)
(*   Part 2  The stages' _run and _check_completion (biascor.py,           *)
(*           create_cov.py, cosmomc.py, merge.py, classifiers/             *)
(*           supernnova.py) over the files and the queue they read.        *)
(*                                                                         *)
(* pippin/task.py, pippin/base.py and pippin/config.py are not part of the *)
(* sources at hand; what the stages call in them (check_for_job, the hash  *)
(* helpers, get_output_string, the state names) is modelled from the       *)
(* written specification and marked so in the map of definitions.          *)
(***************************************************************************)
EXTENDS Integers, Sequences, FiniteSets, TLC

VARIABLES
    \* ---- Part 1: Manager ----
    tasks,          \* self.tasks: the not-yet-run list, in declaration order
    running_tasks,  \* running_tasks of execute
    done_tasks,     \* done_tasks of execute
    dependencies,   \* t.dependencies, for every constructed task
    state,          \* the lifecycle state of every constructed task
    max_jobs,       \* self.max_jobs, a Python value
    num_running,    \* the last value of get_num_running_jobs()
    index,          \* what get_task_index_to_run returned in this cycle (None if not called)
    pc,             \* where execute is: "loop", "submit", "done", "raised"
                    \* ("call", "returned" around a lone get_task_index_to_run)
    swept,          \* tasks the status sweep of the current cycle moved to done
    launched,       \* tasks whose execute() was called in the current cycle
    \* ---- Part 2: one task of one stage ----
    kind,           \* the task's class
    blind,          \* BiasCor: self.blind
    files,          \* the files of the task's output_dir that the stage reads or writes
    squeue,         \* the job names the batch system reports
    yaml,           \* BiasCor: self.yaml["CONFIG"]["WFITMUDIF_OPT"]
    count,          \* how often run, check_completion, sbatch, rmtree, kill, log scan happened
    ret,            \* what the last call of run or check_completion returned
    op,             \* the last step: "new", "run", "check", "job"
    seen,           \* what the last call found: marker, queue, files, counters
    \* ---- Part 3: single functions ----
    given,          \* the arguments of a function applied on its own
    returned        \* what it returned, Pending before the call

managerVars == <<tasks, running_tasks, done_tasks, dependencies, state,
                 max_jobs, num_running, index, pc, swept, launched>>

stageVars == <<kind, blind, files, squeue, yaml, count, ret, op, seen>>

callVars == <<given, returned>>

vars == <<managerVars, stageVars, callVars>>

(***************************************************************************)
(* Bounds of the model.                                                    *)
(***************************************************************************)
MaxTasks == 3       \* at most this many constructed tasks
MaxObserved == 3    \* squeue reports at most this many jobs
MaxCeiling == 3     \* numeric ceilings range over 1..MaxCeiling

(***************************************************************************)
(* Python values, as far as the admission check needs them.                *)
(***************************************************************************)
PyStr(s) == [type |-> "str", s |-> s]
PyInt(n) == [type |-> "int", n |-> n]
PyBool(b) == [type |-> "bool", b |-> b]
TypeError == [type |-> "TypeError"]

\* a + b: concatenation of two str; str and int do not add
PyAdd(a, b) ==
    IF a.type = "str" /\ b.type = "str" THEN PyStr(a.s \o b.s)
    ELSE IF a.type = "int" /\ b.type = "int" THEN PyInt(a.n + b.n)
    ELSE TypeError

\* a < b: defined between two int; '<' between int and str raises TypeError
PyLt(a, b) ==
    IF a.type = "int" /\ b.type = "int" THEN PyBool(a.n < b.n)
    ELSE TypeError

(***************************************************************************)
(* Task states (the names of the written specification).                   *)
(***************************************************************************)
NOT_STARTED == "NOT_STARTED"
SUBMITTED == "SUBMITTED"
RUNNING == "RUNNING"
FINISHED_SUCCESS == "FINISHED_SUCCESS"
FINISHED_FAILURE == "FINISHED_FAILURE"
Terminal == {FINISHED_SUCCESS, FINISHED_FAILURE}

None == 0   \* Python's None where an index is expected; indices are 1-based here

(***************************************************************************)
(* Part 1: Manager                                                         *)
(***************************************************************************)

\* Part 2 at rest, while the scheduler is what is modelled
\* No function is under observation on its own
Pending == [type |-> "pending"]
NoCall == given = Pending /\ returned = Pending

NoStage ==
    /\ kind = "none"
    /\ blind = FALSE
    /\ files = <<>>
    /\ squeue = {}
    /\ yaml = ""
    /\ count = <<>>
    /\ ret = <<>>
    /\ op = "new"
    /\ seen = <<>>

\* The values cfg.ini gives GLOBAL.max_jobs (configparser yields str) and the
\* file names a Manager is built with.
ConfigMaxJobs == {"1", "2", "3"}
Filenames == {"test", "run"}

\* Manager.__init__, line 21
init_max_jobs(cfg_max_jobs, filename) == PyAdd(PyStr(cfg_max_jobs), PyStr(filename))

\* The task lists get_tasks can return: n tasks in declaration order, every
\* dependency built before the task that depends on it.
TaskGraphs ==
    UNION { [1..n -> SUBSET (1..n)] : n \in 0..MaxTasks }
ConstructedGraphs ==
    { d \in TaskGraphs : \A t \in DOMAIN d : \A a \in d[t] : a < t }

RECURSIVE Upto(_)
Upto(n) == IF n = 0 THEN <<>> ELSE Append(Upto(n - 1), n)

\* list.pop(i) with a 1-based i: the list without its i-th element
\* a pop that leaves the element in the list
Pop_keeps(s, i) == s

Pop(s, i) == [k \in 1..(Len(s) - 1) |-> IF k < i THEN s[k] ELSE s[k + 1]]

InList(x, s) == \E k \in 1..Len(s) : s[k] = x

\* line 138: the condition is the attribute t.check_completion, a bound method
\* object; the method is not called and a method object is true
check_completion_attr(t) == TRUE

\* a sweep that appends every running task to the done list and removes none
check_status_loop_copies(i, running, done) == <<running, done \o running>>

\* lines 137-140: for i, t in enumerate(running_tasks), popping while iterating.
\* i is the 0-based position of the list iterator.
RECURSIVE check_status_loop(_, _, _)
check_status_loop(i, running, done) ==
    IF i >= Len(running) THEN <<running, done>>
    ELSE LET t == running[i + 1] IN
         IF check_completion_attr(t)
         THEN check_status_loop(i + 1, Pop(running, i + 1), Append(done, t))
         ELSE check_status_loop(i + 1, running, done)

\* a test that holds a task back when one of its dependencies has failed
can_run_unless_failed(t, done) ==
    \A dep \in dependencies[t] : InList(dep, done) /\ state[dep] # FINISHED_FAILURE

\* lines 118-120: every dependency of t is in done_tasks
can_run(t, done) == \A dep \in dependencies[t] : InList(dep, done)

\* a scan that keeps the last task that can run instead of returning the first
RECURSIVE scan_from_keeps_last(_, _, _)
scan_from_keeps_last(at, tasks_to_run, done) ==
    IF at > Len(tasks_to_run) THEN None
    ELSE LET later == scan_from_keeps_last(at + 1, tasks_to_run, done) IN
         IF later # None THEN later
         ELSE IF can_run(tasks_to_run[at], done) THEN at ELSE None

\* lines 115-123: the first index of tasks_to_run whose task can run, or None
RECURSIVE scan_from(_, _, _)
scan_from(at, tasks_to_run, done) ==
    IF at > Len(tasks_to_run) THEN None
    ELSE IF can_run(tasks_to_run[at], done) THEN at
    ELSE scan_from(at + 1, tasks_to_run, done)

get_task_index_to_run(tasks_to_run, done) == scan_from(1, tasks_to_run, done)

\* t.execute(): the task's run; it leaves the task SUBMITTED, or
\* FINISHED_SUCCESS when nothing had to be regenerated
ExecuteOutcomes == {SUBMITTED, FINISHED_SUCCESS}

\* lines 130-132, after __init__ set max_jobs to mj
ManagerInit(mj) ==
    /\ \E d \in ConstructedGraphs :
         /\ dependencies = d
         /\ tasks = Upto(Cardinality(DOMAIN d))
         /\ state = [t \in DOMAIN d |-> NOT_STARTED]
    /\ running_tasks = <<>>
    /\ done_tasks = <<>>
    /\ max_jobs = mj
    /\ num_running = 0
    /\ index = None
    /\ pc = "loop"
    /\ swept = {}
    /\ launched = <<>>
    /\ NoStage
    /\ NoCall

\* line 134 true, then lines 136-140: the status sweep
check_status ==
    /\ pc = "loop"
    /\ tasks # <<>> \/ running_tasks # <<>>
    /\ LET r == check_status_loop(0, running_tasks, done_tasks) IN
         /\ running_tasks' = r[1]
         /\ done_tasks' = r[2]
         /\ swept' = {running_tasks[k] : k \in 1..Len(running_tasks)}
                        \ {r[1][k] : k \in 1..Len(r[1])}
    /\ launched' = <<>>
    /\ pc' = "submit"
    /\ UNCHANGED <<tasks, dependencies, state, max_jobs, num_running, index>>
    /\ UNCHANGED stageVars
    /\ UNCHANGED callVars

\* lines 142-151: the admission check, at most one submission, the sleep
submit_new ==
    /\ pc = "submit"
    /\ \E n \in 0..MaxObserved :
         LET admit == PyLt(PyInt(n), max_jobs) IN
         /\ num_running' = n
         /\ IF admit.type = "TypeError"
            THEN /\ pc' = "raised"
                 /\ UNCHANGED <<tasks, running_tasks, state, launched, index>>
            ELSE LET i == IF admit.b THEN get_task_index_to_run(tasks, done_tasks)
                          ELSE None IN
                 /\ pc' = "loop"
                 /\ index' = i
                 /\ IF i # None
                    THEN \E outcome \in ExecuteOutcomes :
                           /\ tasks' = Pop(tasks, i)
                           /\ running_tasks' = Append(running_tasks, tasks[i])
                           /\ state' = [state EXCEPT ![tasks[i]] = outcome]
                           /\ launched' = Append(launched, tasks[i])
                    ELSE UNCHANGED <<tasks, running_tasks, state, launched>>
    /\ UNCHANGED <<done_tasks, dependencies, max_jobs, swept>>
    /\ UNCHANGED stageVars
    /\ UNCHANGED callVars

\* line 134 false: execute returns
loop_exit ==
    /\ pc = "loop"
    /\ tasks = <<>> /\ running_tasks = <<>>
    /\ pc' = "done"
    /\ UNCHANGED <<tasks, running_tasks, done_tasks, dependencies, state,
                   max_jobs, num_running, index, swept, launched>>
    /\ UNCHANGED stageVars
    /\ UNCHANGED callVars

ManagerNext == check_status \/ submit_new \/ loop_exit

\* Manager as written: max_jobs is what line 21 computes.
SpecManagerInit ==
    \E c \in ConfigMaxJobs, f \in Filenames : ManagerInit(init_max_jobs(c, f))
SpecManager == SpecManagerInit /\ [][ManagerNext]_vars

\* The loop of execute for a numeric ceiling: the behaviours of lines 134-151
\* in which the comparison of line 144 yields a truth value.
SpecLoopInit == \E c \in 1..MaxCeiling : ManagerInit(PyInt(c))
SpecLoop == SpecLoopInit /\ [][ManagerNext]_vars

\* get_task_index_to_run on its own: any not-yet-run list that execute can hold
\* (a sub-list of the declaration order) against any done list.
RECURSIVE Ascending(_)
Ascending(S) ==
    IF S = {} THEN <<>>
    ELSE LET m == CHOOSE x \in S : \A y \in S : y <= x IN Append(Ascending(S \ {m}), m)

SpecIndexInit ==
    /\ \E d \in ConstructedGraphs :
         /\ dependencies = d
         /\ \E todo \in SUBSET (DOMAIN d) : \E done \in SUBSET (DOMAIN d \ todo) :
              /\ tasks = Ascending(todo)
              /\ done_tasks = Ascending(done)
              /\ state \in [DOMAIN d -> {NOT_STARTED, SUBMITTED} \cup Terminal]
              /\ \A t \in todo : state[t] = NOT_STARTED
              /\ \A t \in done : state[t] # NOT_STARTED
              /\ \A t \in DOMAIN d \ (todo \cup done) : state[t] = SUBMITTED
    /\ running_tasks = <<>>
    /\ max_jobs = PyInt(1)
    /\ num_running = 0
    /\ index = None
    /\ pc = "call"
    /\ swept = {}
    /\ launched = <<>>
    /\ NoStage
    /\ NoCall

call_get_task_index_to_run ==
    /\ pc = "call"
    /\ index' = get_task_index_to_run(tasks, done_tasks)
    /\ pc' = "returned"
    /\ UNCHANGED <<tasks, running_tasks, done_tasks, dependencies, state,
                   max_jobs, num_running, swept, launched>>
    /\ UNCHANGED stageVars
    /\ UNCHANGED callVars

SpecIndex == SpecIndexInit /\ [][call_get_task_index_to_run]_vars

(***************************************************************************)
(* Part 2: the stages                                                      *)
(***************************************************************************)
Stages == {"BiasCor", "CreateCov", "CosmoMC", "Merger", "SuperNNova"}

MaxRuns == 2      \* calls of run on the task
MaxChecks == 2    \* calls of check_completion on the task

Absent == "<absent>"     \* the content of a file that does not exist
NoValue == "<unset>"     \* the value of a key that a dict does not hold

StateValue(name) == [type |-> "TaskState", name |-> name]
PyNone == [type |-> "NoneType"]
Raised(exc) == [type |-> "raised", exc |-> exc]

\* sub in s, for two str
Contains(sub, s) ==
    \E at \in 1..(Len(s) - Len(sub) + 1) : SubSeq(s, at, at + Len(sub) - 1) = sub

\* The files of output_dir, none of them existing: what shutil.rmtree followed
\* by mkdirs leaves.
NoFiles ==
    [hash_file |-> Absent,        \* the stored hash
     done_file |-> Absent,        \* self.done_file
     done_file2 |-> Absent,       \* SuperNNova: self.done_file2
     merge_log |-> FALSE,         \* BiasCor: output/MERGE.LOG
     m0dif_dirs |-> FALSE,        \* BiasCor: the directories of output["m0dif_dirs"]
     cospar |-> FALSE,            \* BiasCor: a wfit ... .COSPAR file in them
     w_summary |-> FALSE,         \* BiasCor: w_summary.csv
     kill_log |-> FALSE,          \* BiasCor: self.kill_file
     original_output |-> FALSE,   \* Merger: FITOPT000.FITRES.gz in output_dir
     fitres_outdir |-> FALSE,     \* Merger: self.fitres_outdir
     logfile |-> Absent,          \* Merger: output.log
     dump_pred |-> FALSE,         \* SuperNNova: a PRED file under dump/models
     dump_model |-> FALSE,        \* SuperNNova: a .pt file under dump/models
     predictions |-> FALSE,       \* SuperNNova: predictions.csv
     model_pt |-> FALSE]          \* SuperNNova: model.pt

\* self.job_name / self.job_base_name; the Merger starts no batch job
job_name(k) ==
    CASE k = "BiasCor" -> "BCOR.input"
      [] k = "CreateCov" -> "PIP_CREATE_COV_COV_BCOR"
      [] k = "CosmoMC" -> "cosmomc_COSMO"
      [] k = "SuperNNova" -> "PIP_SIM_FIT_SNN"
      [] OTHER -> "<no job>"

OtherJob == "somebody_elses_job"

\* What the stage's job writes into its done file.
DoneContents(k) ==
    CASE k = "BiasCor" -> {"SUCCESS", "FAIL"}
      [] k = "Merger" -> {"SUCCESS"}
      [] OTHER -> {"SUCCESS", "FAILURE"}

\* The string each stage looks for in a done file to tell a failure.
FailureSentinel(k) == IF k = "BiasCor" THEN "FAIL" ELSE "FAILURE"

\* What a call leaves: the value returned (or the exception), the files, how
\* many cancellation requests it sent, whether it scanned logs for errors.
Outcome(r, f, kill, scan) == [ret |-> r, files |-> f, kill |-> kill, scan |-> scan]

\* Task.check_for_job: RUNNING while the job is listed; a job that is gone is a
\* failure, reported after the log scan and the cancellation request
check_for_job(f, sq, match) ==
    IF match \in sq THEN Outcome(StateValue(RUNNING), f, 0, FALSE)
    ELSE Outcome(StateValue(FINISHED_FAILURE), f, 1, TRUE)

\* biascor.py 146-150
kill_and_fail(f) ==
    Outcome(StateValue(FINISHED_FAILURE), [f EXCEPT !.kill_log = TRUE], 1, TRUE)

\* biascor.py 152-159
check_issues(f) == kill_and_fail(f)

\* biascor.py 114-144: True and the summary written if a COSPAR file is found
\* and read, False (the exception is caught) otherwise
generate_w_summary(f) ==
    IF f.m0dif_dirs /\ f.cospar
    THEN [ok |-> TRUE, files |-> [f EXCEPT !.w_summary = TRUE]]
    ELSE [ok |-> FALSE, files |-> f]

\* BiasCor_check_completion treating a failed summary as a failed task
BiasCor_check_completion_fails_degraded(f, sq) ==
    IF f.done_file # Absent
    THEN IF Contains("FAIL", f.done_file) THEN check_issues(f)
         ELSE IF ~f.w_summary
              THEN IF ~f.m0dif_dirs
                   THEN Outcome(Raised("FileNotFoundError"), f, 0, FALSE)
                   ELSE LET g == generate_w_summary(f) IN
                        IF g.ok THEN Outcome(StateValue(FINISHED_SUCCESS), g.files, 0, FALSE)
                        ELSE kill_and_fail(g.files)
              ELSE Outcome(StateValue(FINISHED_SUCCESS), f, 0, FALSE)
    ELSE IF ~f.merge_log THEN check_issues(f)
    ELSE check_for_job(f, sq, job_name("BiasCor"))

\* biascor.py 161-195
BiasCor_check_completion(f, sq) ==
    IF f.done_file # Absent
    THEN IF Contains("FAIL", f.done_file) THEN check_issues(f)
         ELSE IF ~f.w_summary
              THEN IF ~f.m0dif_dirs    \* os.listdir(d), lines 170-171
                   THEN Outcome(Raised("FileNotFoundError"), f, 0, FALSE)
                   ELSE LET g == generate_w_summary(f) IN
                        IF g.ok THEN Outcome(StateValue(FINISHED_SUCCESS), g.files, 0, FALSE)
                        ELSE Outcome(StateValue(FINISHED_SUCCESS), g.files, 0, FALSE)
              ELSE Outcome(StateValue(FINISHED_SUCCESS), f, 0, FALSE)
    ELSE IF ~f.merge_log THEN check_issues(f)
    ELSE check_for_job(f, sq, job_name("BiasCor"))

\* create_cov.py 115-125
CreateCov_check_completion(f, sq) ==
    IF f.done_file # Absent
    THEN IF Contains("FAILURE", f.done_file)
         THEN Outcome(StateValue(FINISHED_FAILURE), f, 0, TRUE)
         ELSE Outcome(StateValue(FINISHED_SUCCESS), f, 0, FALSE)
    ELSE check_for_job(f, sq, job_name("CreateCov"))

\* cosmomc.py 46-55
CosmoMC_check_completion(f, sq) ==
    IF f.done_file # Absent
    THEN IF Contains("FAILURE", f.done_file)
         THEN Outcome(StateValue(FINISHED_FAILURE), f, 0, FALSE)
         ELSE Outcome(StateValue(FINISHED_SUCCESS), f, 0, FALSE)
    ELSE Outcome(PyInt(4), f, 0, FALSE)

\* merge.py 48-98
Merger_check_completion(f, sq) ==
    IF f.done_file # Absent THEN Outcome(StateValue(FINISHED_SUCCESS), f, 0, FALSE)
    ELSE IF f.original_output
    THEN IF ~f.fitres_outdir
         THEN Outcome(StateValue(FINISHED_SUCCESS),
                      [f EXCEPT !.fitres_outdir = TRUE, !.original_output = FALSE,
                                !.done_file = "SUCCESS"], 0, FALSE)
         ELSE Outcome(StateValue(FINISHED_SUCCESS), f, 0, FALSE)
    ELSE IF f.logfile # Absent
    THEN IF Contains("ERROR", f.logfile) \/ Contains("ABORT", f.logfile)
         THEN IF f.hash_file = Absent    \* os.remove(self.hash_file)
              THEN Outcome(Raised("FileNotFoundError"), f, 0, FALSE)
              ELSE Outcome(StateValue(FINISHED_FAILURE),
                           [f EXCEPT !.hash_file = Absent], 0, FALSE)
         ELSE Outcome(PyNone, f, 0, FALSE)    \* the function ends without a return
    ELSE Outcome(StateValue(FINISHED_FAILURE), f, 0, FALSE)

\* supernnova.py 103-124: raises when the dump holds no prediction file
get_model_and_pred(f) ==
    IF f.dump_pred THEN [ok |-> TRUE, model |-> f.dump_model] ELSE [ok |-> FALSE, model |-> FALSE]

\* SuperNNova_check_completion reading only the first of its two done files
SuperNNova_check_completion_first_file_only(f, sq) ==
    IF f.done_file # Absent \/ f.done_file2 # Absent
    THEN IF f.done_file # Absent /\ Contains("FAILURE", f.done_file)
         THEN Outcome(StateValue(FINISHED_FAILURE), f, 0, FALSE)
         ELSE IF ~f.predictions \/ ~f.model_pt
         THEN LET g == get_model_and_pred(f) IN
              IF ~g.ok THEN Outcome(Raised("IndexError"), f, 0, FALSE)
              ELSE LET moved == ~f.model_pt /\ g.model IN
                   Outcome(StateValue(FINISHED_SUCCESS),
                           [f EXCEPT !.model_pt = f.model_pt \/ moved,
                                     !.dump_model = f.dump_model /\ ~moved,
                                     !.predictions = TRUE], 0, FALSE)
         ELSE Outcome(StateValue(FINISHED_SUCCESS), f, 0, FALSE)
    ELSE check_for_job(f, sq, job_name("SuperNNova"))

\* supernnova.py 301-346
SuperNNova_check_completion(f, sq) ==
    IF f.done_file # Absent \/ f.done_file2 # Absent
    THEN IF f.done_file # Absent /\ Contains("FAILURE", f.done_file)
         THEN Outcome(StateValue(FINISHED_FAILURE), f, 0, FALSE)
         ELSE IF f.done_file2 # Absent /\ Contains("FAILURE", f.done_file2)
         THEN Outcome(StateValue(FINISHED_FAILURE), f, 0, FALSE)
         ELSE IF ~f.predictions \/ ~f.model_pt
         THEN LET g == get_model_and_pred(f) IN
              IF ~g.ok THEN Outcome(Raised("IndexError"), f, 0, FALSE)
              ELSE LET moved == ~f.model_pt /\ g.model IN
                   Outcome(StateValue(FINISHED_SUCCESS),
                           [f EXCEPT !.model_pt = f.model_pt \/ moved,
                                     !.dump_model = f.dump_model /\ ~moved,
                                     !.predictions = TRUE], 0, FALSE)
         ELSE Outcome(StateValue(FINISHED_SUCCESS), f, 0, FALSE)
    ELSE check_for_job(f, sq, job_name("SuperNNova"))

_check_completion(k, f, sq) ==
    CASE k = "BiasCor" -> BiasCor_check_completion(f, sq)
      [] k = "CreateCov" -> CreateCov_check_completion(f, sq)
      [] k = "CosmoMC" -> CosmoMC_check_completion(f, sq)
      [] k = "Merger" -> Merger_check_completion(f, sq)
      [] k = "SuperNNova" -> SuperNNova_check_completion(f, sq)

\* The done-marker of a task: present, and reporting failure
MarkerExists(k, f) ==
    f.done_file # Absent \/ (k = "SuperNNova" /\ f.done_file2 # Absent)
MarkerFailed(k, f) ==
    \/ f.done_file # Absent /\ Contains(FailureSentinel(k), f.done_file)
    \/ k = "SuperNNova" /\ f.done_file2 # Absent /\ Contains(FailureSentinel(k), f.done_file2)

\* What a call finds when it starts
Found == [done |-> MarkerExists(kind, files), fail |-> MarkerFailed(kind, files),
          live |-> job_name(kind) \in squeue, files |-> files, squeue |-> squeue,
          count |-> count]

(***************************************************************************)
(* run                                                                     *)
(***************************************************************************)
\* biascor.py 243 and 247: the value used when the configuration gives none
W_DEFAULT == "-ompri 0.311 -dompri 0.01  -wmin -1.5 -wmax -0.5 -wsteps 201 -hsteps 121"

\* A value the user's file may give for WFITMUDIF_OPT
W_USER == "-wmin -2"

\* Task.get_hash_from_string: a digest, told apart for different strings
get_hash_from_string(s) == "hash(" \o s \o ")"

\* ConfigBasedExecutable.get_output_string for the BiasCor input: the text of
\* the configuration, in which the value of WFITMUDIF_OPT appears
get_output_string(y) == "CONFIG: WFITMUDIF_OPT: " \o y

\* Task.get_old_hash: the stored hash, None if there is none
get_old_hash(f) == f.hash_file

\* a test that asks for a regeneration whatever the stored hash is
_check_regenerate_always(force_refresh, new_hash, f) == TRUE

\* Task._check_regenerate
_check_regenerate(force_refresh, new_hash, f) ==
    force_refresh \/ new_hash # get_old_hash(f)

\* What a call of run leaves: the value returned (or the exception), the
\* files, the BiasCor configuration held in memory, whether a job was handed to
\* the batch executor, whether it got into the queue, whether output_dir was
\* wiped.
RunOutcome(r, f, y, submit, queued, wipe) ==
    [ret |-> r, files |-> f, yaml |-> y, submit |-> submit, queued |-> queued,
     wipe |-> wipe]

\* dict.get(key, default) for self.yaml["CONFIG"]
yaml_get(y, default) == IF y = NoValue THEN default ELSE y

\* biascor.py 241-248: the value of WFITMUDIF_OPT after the blinding branch
w_string(y, b) ==
    IF b THEN yaml_get(y, W_DEFAULT) \o " -blind" ELSE yaml_get(y, W_DEFAULT)

\* biascor.py 203-314: started tells whether submit_batch_jobs.sh, run by _run
\* after a regeneration, got as far as writing MERGE.LOG and queueing jobs
write_input(force_refresh, f, y, b, started) ==
    LET y2 == w_string(y, b)
        final_output == get_output_string(y2)
        new_hash == get_hash_from_string(final_output)
        old_hash == get_old_hash(f)
    IN  IF force_refresh \/ new_hash # old_hash
        THEN [regenerating |-> TRUE, yaml |-> y2,
              files |-> [NoFiles EXCEPT !.hash_file = new_hash]]
        ELSE [regenerating |-> FALSE, yaml |-> y2, files |-> f]

\* biascor.py 316-331
BiasCor_run(force_refresh, f, y, b, started) ==
    LET w == write_input(force_refresh, f, y, b, started) IN
    IF w.regenerating
    THEN RunOutcome(PyBool(TRUE), [w.files EXCEPT !.merge_log = started], w.yaml,
                    TRUE, started, TRUE)
    ELSE RunOutcome(PyBool(TRUE), w.files, w.yaml, FALSE, FALSE, FALSE)

\* The keys of Task.output set by the base class
Task_output_keys == {"name", "output_dir", "hash_file", "done_file"}

\* biascor.py 42-96, 217, 294: the keys of BiasCor.output
BiasCor_output_keys ==
    Task_output_keys \cup
    {"blind", "prob_column_name", "fit_output_dir", "NSPLITRAN", "NSPLITRAN_VAL",
     "subdirs", "w_summary", "m0dif_dirs", "muopts", "hubble_plot", "fitopt_index",
     "muopt_prob_cols"}

\* create_cov.py 135-149: the keys of biascor_dep.output it reads
calculate_input_reads == {"fit_output_dir", "subdirs", "muopt_scales"}

\* str.format(**format_dict): every field of the template needs a key
format(fields, keys) == fields \subseteq keys

\* create_cov.py 76-94 and 153-162
CreateCov_slurm_fields ==
    {"job_name", "log_file", "output_dir", "path_to_code", "unbinned",
     "subtract_vpec", "input_file", "done_file"}
CreateCov_format_dict ==
    {"job_name", "log_file", "done_file", "path_to_code", "input_file",
     "output_dir", "unbinned", "subtract_vpec"}

\* The text CreateCov hashes: fixed for a fixed configuration
CreateCov_final_output_for_hash == "NAME: COV_BCOR ... #SBATCH --job-name=PIP_CREATE_COV_COV_BCOR"

\* create_cov.py 151-192
CreateCov_run(force_refresh, f, y) ==
    IF ~(calculate_input_reads \subseteq BiasCor_output_keys)
    THEN RunOutcome(Raised("KeyError"), f, y, FALSE, FALSE, FALSE)
    ELSE IF ~format(CreateCov_slurm_fields, CreateCov_format_dict)
    THEN RunOutcome(Raised("KeyError"), f, y, FALSE, FALSE, FALSE)
    ELSE LET new_hash == get_hash_from_string(CreateCov_final_output_for_hash) IN
         IF force_refresh \/ new_hash # get_old_hash(f)
         THEN RunOutcome(PyBool(TRUE), [NoFiles EXCEPT !.hash_file = new_hash], y,
                         TRUE, TRUE, TRUE)
         ELSE RunOutcome(PyBool(TRUE), f, y, FALSE, FALSE, FALSE)

\* cosmomc.py 24-44 and 64-69
CosmoMC_slurm_fields ==
    {"job_name", "log_file", "path_to_cosmomc", "path_to_ini", "done_file"}
CosmoMC_format_dict == {"job_name", "log_file", "done_file", "path_to_cosmomc"}

CosmoMC_final_slurm == "#SBATCH --job-name=cosmomc_COSMO"

\* cosmomc.py 60-88
CosmoMC_run(force_refresh, f, y) ==
    IF ~format(CosmoMC_slurm_fields, CosmoMC_format_dict)
    THEN RunOutcome(Raised("KeyError"), f, y, FALSE, FALSE, FALSE)
    ELSE LET new_hash == get_hash_from_string(CosmoMC_final_slurm) IN
         IF force_refresh \/ new_hash # get_old_hash(f)
         THEN RunOutcome(PyBool(TRUE), [NoFiles EXCEPT !.hash_file = new_hash], y,
                         TRUE, TRUE, TRUE)
         ELSE RunOutcome(PyBool(TRUE), f, y, FALSE, FALSE, FALSE)

\* merge.py 101: the command, fixed for a fixed configuration
Merger_command == "combine_fitres.exe FITOPT000.FITRES.gz merge.key -outfile_text  FITOPT000.FITRES.gz"

\* How combine_fitres.exe, run synchronously, can end: with the combined file,
\* with an error in the log, or with neither
CombineResults == {"combined", "error", "silent"}

Merger_log(result) ==
    CASE result = "combined" -> "combine_fitres: done"
      [] result = "error" -> "FATAL ERROR ABORT in combine_fitres"
      [] OTHER -> ""

\* merge.py 100-115
Merger_run(force_refresh, f, y, result) ==
    LET old_hash == get_old_hash(f)
        new_hash == get_hash_from_string(Merger_command)
    IN  IF force_refresh \/ new_hash # old_hash
        THEN RunOutcome(PyBool(TRUE),
                        [NoFiles EXCEPT !.hash_file = new_hash,
                                        !.logfile = Merger_log(result),
                                        !.original_output = (result = "combined")],
                        y, TRUE, FALSE, TRUE)
        ELSE RunOutcome(PyBool(TRUE), f, y, FALSE, FALSE, FALSE)

SuperNNova_slurm_text == "#SBATCH --job-name=PIP_SIM_FIT_SNN --validate_rnn"

\* supernnova.py 136-299
classify(force_refresh, f, y) ==
    LET new_hash == get_hash_from_string(SuperNNova_slurm_text) IN
    IF ~_check_regenerate(force_refresh, new_hash, f)
    THEN RunOutcome(PyBool(TRUE), f, y, FALSE, FALSE, FALSE)
    ELSE RunOutcome(PyBool(TRUE), [NoFiles EXCEPT !.hash_file = new_hash], y,
                    TRUE, TRUE, TRUE)

\* What the surroundings decide during a call of run
RunEnvs(k) ==
    CASE k = "BiasCor" -> {"started", "died"}
      [] k = "Merger" -> CombineResults
      [] OTHER -> {"queued"}

_run(k, force_refresh, f, y, b, env) ==
    CASE k = "BiasCor" -> BiasCor_run(force_refresh, f, y, b, env = "started")
      [] k = "CreateCov" -> CreateCov_run(force_refresh, f, y)
      [] k = "CosmoMC" -> CosmoMC_run(force_refresh, f, y)
      [] k = "Merger" -> Merger_run(force_refresh, f, y, env)
      [] k = "SuperNNova" -> classify(force_refresh, f, y)

(***************************************************************************)
(* One task of one stage, its directory and the batch queue                *)
(***************************************************************************)
NoManager ==
    /\ tasks = <<>>
    /\ running_tasks = <<>>
    /\ done_tasks = <<>>
    /\ dependencies = <<>>
    /\ state = <<>>
    /\ max_jobs = PyInt(1)
    /\ num_running = 0
    /\ index = None
    /\ pc = "stage"
    /\ swept = {}
    /\ launched = <<>>

\* The hash the stage computes on the first call of run in a process
first_hash(k, y, b) ==
    CASE k = "BiasCor" -> get_hash_from_string(get_output_string(w_string(y, b)))
      [] k = "CreateCov" -> get_hash_from_string(CreateCov_final_output_for_hash)
      [] k = "CosmoMC" -> get_hash_from_string(CosmoMC_final_slurm)
      [] k = "Merger" -> get_hash_from_string(Merger_command)
      [] k = "SuperNNova" -> get_hash_from_string(SuperNNova_slurm_text)

StaleHash == "hash(another configuration)"

\* The directories an earlier process of the same pipeline can have left, and
\* the queue that goes with them: nothing at all; a submitted task whose job is
\* queued, running or gone; a task whose job has written its done file.
\* A Merger starts no job: its directory is what _run left, the log included,
\* or what it left when the process ended after save_new_hash and before the
\* log was opened.
Submitted(k, h) ==
    CASE k = "BiasCor" ->
           {[NoFiles EXCEPT !.hash_file = h, !.merge_log = m] : m \in BOOLEAN}
      [] k = "Merger" ->
           {[NoFiles EXCEPT !.hash_file = h, !.logfile = Merger_log(r),
                            !.original_output = (r = "combined")] : r \in CombineResults}
           \cup {[NoFiles EXCEPT !.hash_file = h]}    \* ended between merge.py 109 and 110
      [] OTHER -> {[NoFiles EXCEPT !.hash_file = h]}

Finished(k, h) ==
    CASE k = "BiasCor" ->
           {f \in {[NoFiles EXCEPT !.hash_file = h, !.merge_log = TRUE,
                                   !.done_file = d, !.m0dif_dirs = m, !.cospar = c,
                                   !.w_summary = w] :
                      d \in DoneContents(k), m \in BOOLEAN, c \in BOOLEAN,
                      w \in BOOLEAN} :
               /\ f.done_file = "SUCCESS" => f.m0dif_dirs
               /\ f.cospar => f.m0dif_dirs
               /\ f.w_summary => (f.cospar /\ f.done_file = "SUCCESS")}
      [] k = "Merger" ->
           {[NoFiles EXCEPT !.hash_file = h, !.logfile = Merger_log("combined"),
                            !.fitres_outdir = TRUE, !.done_file = "SUCCESS"]}
      [] k = "SuperNNova" ->
           {f \in {[NoFiles EXCEPT !.hash_file = h, !.done_file = d1,
                                   !.done_file2 = d2, !.dump_pred = p,
                                   !.dump_model = m] :
                      d1 \in DoneContents(k) \cup {Absent},
                      d2 \in DoneContents(k) \cup {Absent},
                      p \in BOOLEAN, m \in BOOLEAN} :
               /\ f.done_file # Absent \/ f.done_file2 # Absent
               /\ ("FAILURE" \notin {f.done_file, f.done_file2}) => f.dump_pred
               /\ f.dump_model => f.dump_pred}
      [] OTHER ->
           {[NoFiles EXCEPT !.hash_file = h, !.done_file = d] : d \in DoneContents(k)}

Worlds(k, y, b) ==
    LET hs == {first_hash(k, y, b), StaleHash}
        jobs == IF k = "Merger" THEN {{}} ELSE {{}, {job_name(k)}}
        others == {{}, {OtherJob}}
    IN  {[files |-> NoFiles, squeue |-> o] : o \in others}
        \cup {w \in {[files |-> f, squeue |-> j \cup o] :
                       f \in UNION {Submitted(k, h) : h \in hs},
                       j \in jobs, o \in others} :
                (k = "BiasCor" /\ job_name(k) \in w.squeue) => w.files.merge_log}
        \cup {[files |-> f, squeue |-> j \cup o] :
                f \in UNION {Finished(k, h) : h \in hs}, j \in jobs, o \in others}

NoCount == [run |-> 0, forced |-> 0, check |-> 0, submit |-> 0, wipe |-> 0,
            kill |-> 0, scan |-> 0]

StageInit ==
    /\ NoManager
    /\ NoCall
    /\ kind \in Stages
    /\ blind \in (IF kind = "BiasCor" THEN BOOLEAN ELSE {FALSE})
    /\ yaml \in (IF kind = "BiasCor" THEN {NoValue, W_USER} ELSE {NoValue})
    /\ \E w \in Worlds(kind, yaml, blind) : files = w.files /\ squeue = w.squeue
    /\ count = NoCount
    /\ ret = PyNone
    /\ op = "new"
    /\ seen = Found

\* Task.run(force_refresh) on the task
run(force_refresh) ==
    /\ pc = "stage"
    /\ count.run < MaxRuns
    /\ \E env \in RunEnvs(kind) :
         LET o == _run(kind, force_refresh, files, yaml, blind, env) IN
         /\ ret' = o.ret
         /\ files' = o.files
         /\ yaml' = o.yaml
         /\ squeue' = IF o.queued THEN squeue \cup {job_name(kind)} ELSE squeue
         /\ count' = [count EXCEPT !.run = @ + 1,
                                   !.forced = @ + (IF force_refresh THEN 1 ELSE 0),
                                   !.submit = @ + (IF o.submit THEN 1 ELSE 0),
                                   !.wipe = @ + (IF o.wipe THEN 1 ELSE 0)]
    /\ op' = "run"
    /\ seen' = Found
    /\ UNCHANGED <<kind, blind, managerVars>>
    /\ UNCHANGED callVars

\* Task._check_completion(squeue) on the task
check_completion ==
    /\ pc = "stage"
    /\ count.check < MaxChecks
    /\ LET o == _check_completion(kind, files, squeue) IN
         /\ ret' = o.ret
         /\ files' = o.files
         /\ count' = [count EXCEPT !.check = @ + 1, !.kill = @ + o.kill,
                                   !.scan = @ + (IF o.scan THEN 1 ELSE 0)]
    /\ op' = "check"
    /\ seen' = Found
    /\ UNCHANGED <<kind, blind, yaml, squeue, managerVars>>
    /\ UNCHANGED callVars

\* The task's job, in the queue, ends its script: the outputs and the done file
job_writes_done ==
    /\ pc = "stage"
    /\ job_name(kind) \in squeue
    /\ ~MarkerExists(kind, files)
    /\ \E f \in Finished(kind, files.hash_file) :
         /\ kind = "BiasCor" => f.merge_log = files.merge_log /\ ~f.w_summary
         /\ files' = f
    /\ op' = "job"
    /\ UNCHANGED <<kind, blind, yaml, squeue, count, ret, seen, managerVars>>
    /\ UNCHANGED callVars

\* The task's job leaves the queue: it ended, was cancelled, or was lost
job_leaves_queue ==
    /\ pc = "stage"
    /\ job_name(kind) \in squeue
    /\ squeue' = squeue \ {job_name(kind)}
    /\ op' = "job"
    /\ UNCHANGED <<kind, blind, yaml, files, count, ret, seen, managerVars>>
    /\ UNCHANGED callVars

Next ==
    \/ \E force_refresh \in BOOLEAN : run(force_refresh)
    \/ check_completion
    \/ job_writes_done
    \/ job_leaves_queue

Spec == StageInit /\ [][Next]_vars

(***************************************************************************)
(* Claims on the scheduler                                                 *)
(***************************************************************************)
Elems(s) == {s[k] : k \in 1..Len(s)}
Ready(todo, done) == {t \in Elems(todo) : can_run(t, done)}
Ceiling == max_jobs.n

C4_CountedAdmission ==
    /\ pc # "raised"
    /\ launched # <<>> => PyLt(PyInt(num_running), max_jobs) = PyBool(TRUE)

\* C5 Scheduler completeness: execute ends only with the not-yet-run list and
\* the running list empty and every constructed task in a terminal state.
C5_SchedulerCompleteness ==
    pc \in {"done", "raised"} =>
        /\ tasks = <<>>
        /\ running_tasks = <<>>
        /\ \A t \in DOMAIN state : state[t] \in Terminal

C8_DeclarationOrderTieBreak ==
    pc = "returned" =>
        IF Ready(tasks, done_tasks) = {} THEN index = None
        ELSE /\ index \in 1..Len(tasks)
             /\ tasks[index] \in Ready(tasks, done_tasks)
             /\ \A u \in Ready(tasks, done_tasks) : tasks[index] <= u

\* C8, its case: several tasks were ready at once, one of them with a
\* dependency, and an index was returned
C8_Witness ==
    /\ pc = "returned"
    /\ Cardinality(Ready(tasks, done_tasks)) >= 2
    /\ \E t \in Ready(tasks, done_tasks) : dependencies[t] # {}
    /\ index # None

(***************************************************************************)
(* Claims on the stages                                                    *)
(***************************************************************************)
\* The done file(s) hold the success sentinel and no failure sentinel
MarkerSucceeded(k, f) ==
    /\ \/ f.done_file # Absent /\ Contains("SUCCESS", f.done_file)
       \/ k = "SuperNNova" /\ f.done_file2 # Absent /\ Contains("SUCCESS", f.done_file2)
    /\ ~MarkerFailed(k, f)

\* C2: a check that finds no done-marker and the task's job name absent from
\* the live jobs returns FINISHED_FAILURE, for every stage.
C2_VanishedJobDetection ==
    (op = "check" /\ ~seen.done /\ ~seen.live) => ret = StateValue(FINISHED_FAILURE)

\* A check of a submitted CosmoMC task whose job is gone and left no marker
C2_Witness ==
    /\ op = "check" /\ ~seen.done /\ ~seen.live
    /\ kind = "CosmoMC" /\ seen.files.hash_file # Absent

\* C3: as long as run was only ever called with force_refresh false (and no
\* check has touched the directory), at most one job has been handed to the
\* batch executor, and a call after the first returns false and wipes nothing.
C3_IdempotentRun ==
    (count.forced = 0 /\ count.check = 0) =>
        /\ count.submit <= 1
        /\ (op = "run" /\ count.run >= 2) =>
              /\ ret = PyBool(FALSE)
              /\ files = seen.files
              /\ count.submit = seen.count.submit

\* A second unforced run of a blinded BiasCor task
C3_Witness ==
    /\ count.forced = 0 /\ count.check = 0
    /\ op = "run" /\ count.run >= 2 /\ kind = "BiasCor" /\ blind

\* C9: a check that finds the done-marker returns FINISHED_FAILURE exactly
\* when the marker holds the failure sentinel, and FINISHED_SUCCESS when it
\* holds the success sentinel, whatever the live jobs are.
C9_DoneMarkerDecides ==
    (op = "check" /\ seen.done) =>
        /\ (ret = StateValue(FINISHED_FAILURE)) <=> seen.fail
        /\ MarkerSucceeded(kind, seen.files) => ret = StateValue(FINISHED_SUCCESS)

\* A check of a SuperNNova task whose first done file reports success and
\* whose second reports failure, found while the job was still listed
C9_Witness ==
    /\ op = "check" /\ seen.done /\ seen.live /\ kind = "SuperNNova"
    /\ seen.files.done_file = "SUCCESS" /\ seen.files.done_file2 = "FAILURE"
    /\ ret = StateValue(FINISHED_FAILURE)

\* C10: a check that finds no done-marker and the task's job name among the
\* live jobs returns RUNNING, leaves the directory and the stored hash as they
\* were, scans no log for a failure and sends no cancellation.
C10_StillRunningNoOp ==
    (op = "check" /\ ~seen.done /\ seen.live) =>
        /\ ret = StateValue(RUNNING)
        /\ files = seen.files
        /\ count.kill = seen.count.kill
        /\ count.scan = seen.count.scan

\* A check of a CosmoMC task whose job is still listed
C10_Witness ==
    op = "check" /\ ~seen.done /\ seen.live /\ kind = "CosmoMC"

\* The three values the contract allows _check_completion to return
CompletionResults ==
    {StateValue(FINISHED_SUCCESS), StateValue(FINISHED_FAILURE), StateValue(RUNNING)}

\* C11: whatever the done file, the logs and the queue are, a call of
\* _check_completion returns FINISHED_SUCCESS, FINISHED_FAILURE or RUNNING.
C11_ResultRange == op = "check" => ret \in CompletionResults

\* A check of a Merger task whose output.log exists and reports no error,
\* with neither a done file nor the combined file
C11_Witness ==
    /\ op = "check" /\ kind = "Merger" /\ ~seen.done
    /\ seen.files.logfile = Merger_log("silent") /\ ~seen.files.original_output

\* C12: a task that is in the done list in a terminal state stays in the done
\* list, is in neither other list, is not swept again by the status check, has
\* execute() called on it no more, and keeps its state.
C12_TerminalAbsorbing ==
    [][\A t \in Elems(done_tasks) :
          state[t] \in Terminal =>
              /\ t \in Elems(done_tasks')
              /\ t \notin Elems(tasks')
              /\ t \notin Elems(running_tasks')
              /\ t \notin Elems(launched')
              /\ (pc = "loop" /\ pc' = "submit") => t \notin swept'
              /\ state'[t] = state[t]]_vars

\* A finished task is in the done list while the loop still has tasks to run
C12_Witness ==
    /\ pc = "submit" /\ tasks # <<>>
    /\ \E t \in Elems(done_tasks) : state[t] \in Terminal /\ t \notin swept

\* Task.run: the state the task is left in by what _run returned, true for a
\* submission and false for a task found up to date
run_state(r) ==
    IF r = PyBool(TRUE) THEN SUBMITTED
    ELSE IF r = PyBool(FALSE) THEN FINISHED_SUCCESS
    ELSE "<none>"

\* The hash the last call of _run compared with the stored one (the BiasCor
\* hashes the configuration text it has just completed)
new_hash_of(k, y) ==
    IF k = "BiasCor" THEN get_hash_from_string(get_output_string(y))
    ELSE first_hash(k, y, FALSE)

\* The last step was a call of run with force_refresh true / false
ForcedRun == op = "run" /\ count.forced > seen.count.forced
UnforcedRun == op = "run" /\ count.forced = seen.count.forced

\* C13: the first run of a task, unforced, that finds the stored hash equal to
\* the hash of its configuration hands no job to the batch executor and leaves
\* the task FINISHED_SUCCESS, in every stage.
C13_UpToDateFinishes ==
    (UnforcedRun /\ count.run = 1 /\ seen.files.hash_file = new_hash_of(kind, yaml)) =>
        /\ count.submit = seen.count.submit
        /\ run_state(ret) = FINISHED_SUCCESS

\* An unforced first run of a CosmoMC task whose stored hash is that of its
\* job script
C13_Witness ==
    /\ UnforcedRun /\ count.run = 1 /\ kind = "CosmoMC"
    /\ seen.files.hash_file = new_hash_of(kind, yaml)

\* C14: a call of run with force_refresh true wipes output_dir, stores the
\* hash of the configuration and hands a job to the batch executor, whatever
\* hash was stored, in every stage.
C14_ForceRefreshRegenerates ==
    ForcedRun =>
        /\ ret = PyBool(TRUE)
        /\ count.wipe = seen.count.wipe + 1
        /\ count.submit = seen.count.submit + 1
        /\ files.hash_file = new_hash_of(kind, yaml)

\* A forced run of a CreateCov task whose stored hash is that of its
\* configuration
C14_Witness ==
    /\ ForcedRun /\ kind = "CreateCov"
    /\ seen.files.hash_file = new_hash_of(kind, yaml)

(***************************************************************************)
(* Part 3: single functions                                                *)
(***************************************************************************)
\* ---- _run after one option of the configuration changed ----
\* The options of a task that the stage reads, its own and those it takes
\* from the output of its dependencies.
Options(k) ==
    CASE k = "Merger" -> {"fitres_file", "merge_key_filename", "OPTS"}
      [] k = "BiasCor" -> {"WFITMUDIF_OPT", "blindflag"}
      [] k = "SuperNNova" -> {"VARIANT", "SEED", "DATA_YML"}
      [] k = "CosmoMC" -> {"name", "location", "OPTS"}
      [] k = "CreateCov" -> {"SUBTRACT_VPEC", "COVOPTS", "INI_DIR"}

OptionValues(o) ==
    CASE o = "WFITMUDIF_OPT" -> {NoValue, W_USER}
      [] o = "blindflag" -> {"0", "2"}
      [] o = "VARIANT" -> {"vanilla", "bayesian"}
      [] o = "DATA_YML" -> {"raw_dir: RAW_DIR", "raw_dir: RAW_DIR\nphot_reject: PHOTFLAG"}
      [] o = "SUBTRACT_VPEC" -> {"", "-s"}
      [] OTHER -> {"u", "v"}

Configs(k) == UNION {[Options(k) -> S] : S \in SUBSET UNION {OptionValues(o) : o \in Options(k)}}

ValidConfigs(k) == {c \in Configs(k) : \A o \in Options(k) : c[o] \in OptionValues(o)}

\* The options whose value is part of the string the stage hashes
HashedOptions(k) ==
    CASE k = "Merger" -> {"fitres_file", "merge_key_filename"}       \* merge.py 101-104
      [] k = "BiasCor" -> {"WFITMUDIF_OPT", "blindflag"}              \* biascor.py 226-248, 295
      [] k = "SuperNNova" -> {"VARIANT", "SEED"}                      \* supernnova.py 236-277
      [] k = "CosmoMC" -> {"name", "location"}                        \* cosmomc.py 64-72
      [] k = "CreateCov" -> {"SUBTRACT_VPEC", "COVOPTS", "INI_DIR"}   \* create_cov.py 137-165

\* The string handed to get_hash_from_string
hash_text(k, c) ==
    CASE k = "Merger" ->
           "combine_fitres.exe " \o c["fitres_file"] \o " " \o c["merge_key_filename"]
               \o " -outfile_text  FITOPT000.FITRES.gz"
      [] k = "BiasCor" ->
           get_output_string(w_string(c["WFITMUDIF_OPT"], c["blindflag"] # "0"))
      [] k = "SuperNNova" ->
           "#SBATCH --job-name=PIP_SIM_FIT_SNN --model " \o c["VARIANT"]
               \o " --seed " \o c["SEED"] \o " data.yml"
      [] k = "CosmoMC" ->
           "#SBATCH --job-name=cosmomc_" \o c["name"] \o " mpirun " \o c["location"]
      [] k = "CreateCov" ->
           "COSMOMC_TEMPLATES: " \o c["INI_DIR"] \o " COVOPTS: " \o c["COVOPTS"]
               \o " create_covariance.py " \o c["SUBTRACT_VPEC"]

\* What the job a regenerating _run starts is given to work on: the command,
\* the input file or the job script, and the files written beside it
job_text(k, c) ==
    CASE k = "SuperNNova" -> hash_text(k, c) \o ": " \o c["DATA_YML"]   \* supernnova.py 285-294
      [] OTHER -> hash_text(k, c)

\* _run(False) with stored as the old hash: whether it regenerates
run_is_stale(k, c, stored) ==
    IF k = "CosmoMC" /\ ~format(CosmoMC_slurm_fields, CosmoMC_format_dict)
    THEN Raised("KeyError")
    ELSE IF k = "CreateCov" /\ ~(calculate_input_reads \subseteq BiasCor_output_keys)
    THEN Raised("KeyError")
    ELSE PyBool(get_hash_from_string(hash_text(k, c)) # stored)

\* Two configurations of a task of class k that differ in the option o only
ChangedConfigs ==
    {[fn |-> "_run", kind |-> k, option |-> o, old |-> a, new |-> b] :
        k \in Stages, o \in UNION {Options(j) : j \in Stages},
        a \in UNION {ValidConfigs(j) : j \in Stages},
        b \in UNION {ValidConfigs(j) : j \in Stages}}

SpecHashInit ==
    /\ NoManager
    /\ NoStage
    /\ returned = Pending
    /\ given \in {g \in ChangedConfigs :
                    /\ g.option \in Options(g.kind)
                    /\ g.old \in ValidConfigs(g.kind)
                    /\ g.new \in ValidConfigs(g.kind)
                    /\ g.old[g.option] # g.new[g.option]
                    /\ \A o \in Options(g.kind) \ {g.option} : g.old[o] = g.new[o]}

\* The hash of the old configuration is stored; _run(False) is called on the
\* task built from the new one
call_run_after_change ==
    /\ returned = Pending
    /\ given.fn = "_run"
    /\ returned' = run_is_stale(given.kind, given.new,
                                get_hash_from_string(hash_text(given.kind, given.old)))
    /\ UNCHANGED <<given, managerVars, stageVars>>

SpecHash == SpecHashInit /\ [][call_run_after_change]_vars

\* C15: after a change of exactly one option the next run is stale if the
\* option is part of the hashed string and not stale otherwise, and it is
\* stale whenever the change alters what the job is given to work on.
C15_HashSensitivity ==
    (returned # Pending /\ given.fn = "_run") =>
        /\ returned = PyBool(given.option \in HashedOptions(given.kind))
        /\ job_text(given.kind, given.old) # job_text(given.kind, given.new)
              => returned = PyBool(TRUE)

\* A SuperNNova task whose DATA_YML changed, after its run
C15_Witness ==
    /\ returned # Pending /\ given.fn = "_run"
    /\ given.kind = "SuperNNova" /\ given.option = "DATA_YML"

\* C16: a check of a BiasCor task that finds the done file without the
\* failure sentinel and no w_summary.csv returns FINISHED_SUCCESS whether or
\* not the summary could be written; it touches no file but the summary, sends
\* no cancellation, wipes nothing and submits nothing.
C16_DegradedSuccess ==
    (op = "check" /\ kind = "BiasCor" /\ seen.done /\ ~seen.fail
        /\ ~seen.files.w_summary) =>
        /\ ret = StateValue(FINISHED_SUCCESS)
        /\ files = [seen.files EXCEPT !.w_summary = seen.files.cospar]
        /\ count.kill = seen.count.kill
        /\ count.submit = seen.count.submit
        /\ count.wipe = seen.count.wipe

\* Such a check in a directory without any COSPAR file: no summary is written
C16_Witness ==
    /\ op = "check" /\ kind = "BiasCor" /\ seen.done /\ ~seen.fail
    /\ ~seen.files.w_summary /\ ~seen.files.cospar /\ ~files.w_summary

\* C17: every check that returns FINISHED_FAILURE has scanned the task's logs
\* and sent a cancellation request for the task's jobs, in every stage.
C17_FailureAlwaysCancels ==
    (op = "check" /\ ret = StateValue(FINISHED_FAILURE)) =>
        /\ count.scan = seen.count.scan + 1
        /\ count.kill = seen.count.kill + 1

\* A check of a CreateCov task whose done file holds FAILURE
C17_Witness ==
    /\ op = "check" /\ kind = "CreateCov" /\ seen.fail
    /\ ret = StateValue(FINISHED_FAILURE)

\* ---- BiasCor.check_issues over the logs it scans ----
\* biascor.py 158: the patterns handed to scan_files_for_error
FatalPatterns == {"FATAL ERROR ABORT", "QOSMaxSubmitJobPerUserLimit", "DUE TO TIME LIMIT"}

\* Lines a log can hold
LogLines ==
    {"FATAL ERROR ABORT: could not open the input file",
     "sbatch: error: QOSMaxSubmitJobPerUserLimit",
     "slurmstepd: error: JOB CANCELLED DUE TO TIME LIMIT",
     "Done merging"}

\* Task.scan_files_for_error: the patterns found in the given logs, reported
\* as diagnostics
scan_files_for_error(log_files, patterns) ==
    {p \in patterns : \E lines \in log_files : \E line \in lines : Contains(p, line)}

\* check_issues that waits when the queue limit rejected the submission
check_issues_on_waits(f, logging_file, dir_logs) ==
    LET log_files == {logging_file} \cup (IF f.m0dif_dirs THEN {dir_logs} ELSE {})
        matched == scan_files_for_error(log_files, FatalPatterns)
    IN  IF "QOSMaxSubmitJobPerUserLimit" \in matched
        THEN [out |-> Outcome(StateValue(RUNNING), f, 0, TRUE), matched |-> matched]
        ELSE [out |-> kill_and_fail(f), matched |-> matched]

\* biascor.py 152-159, with the logs it reads: output.log and, where the
\* m0dif directories exist, the .LOG files in them
check_issues_on(f, logging_file, dir_logs) ==
    LET log_files == {logging_file} \cup (IF f.m0dif_dirs THEN {dir_logs} ELSE {})
        matched == scan_files_for_error(log_files, FatalPatterns)
    IN  [out |-> kill_and_fail(f), matched |-> matched]

SpecIssuesInit ==
    /\ NoManager
    /\ NoStage
    /\ returned = Pending
    /\ given \in {[fn |-> "check_issues",
                   files |-> [NoFiles EXCEPT !.m0dif_dirs = m, !.kill_log = k],
                   logging_file |-> l, dir_logs |-> dl] :
                     m \in BOOLEAN, k \in BOOLEAN,
                     l \in SUBSET LogLines, dl \in SUBSET LogLines}

call_check_issues ==
    /\ returned = Pending
    /\ given.fn = "check_issues"
    /\ returned' = check_issues_on(given.files, given.logging_file, given.dir_logs)
    /\ UNCHANGED <<given, managerVars, stageVars>>

SpecIssues == SpecIssuesInit /\ [][call_check_issues]_vars

\* C18: check_issues returns FINISHED_FAILURE, after the kill request,
\* whichever patterns the scan found and whether or not the log directories
\* exist.
C18_ClassificationIsDiagnostic ==
    (returned # Pending /\ given.fn = "check_issues") =>
        /\ returned.out.ret = StateValue(FINISHED_FAILURE)
        /\ returned.out = kill_and_fail(given.files)

\* check_issues returned after the scan found the queue-limit rejection and
\* the time limit in the logs
C18_Witness ==
    /\ returned # Pending /\ given.fn = "check_issues"
    /\ {"QOSMaxSubmitJobPerUserLimit", "DUE TO TIME LIMIT"} \subseteq returned.matched

\* ---- BiasCor.get_tasks: resolve_classifier ----
MaxClassifiers == 3    \* classifier tasks constructed before the BiasCor stage

\* Names and probability column names of classifier tasks; "NN" is the name
\* of one task and can be the column of another
ClassifierNames == {"SNN", "NN"}
ProbColumns == {"PROB_SNN", "PROB_NN", "NN"}

\* A classifier task: id is its place among the constructed tasks
ClassifierTasks(n) ==
    {s \in [1..n -> [id : 1..n, name : ClassifierNames, prob : ProbColumns]] :
        \A k \in 1..n : s[k].id = k}

\* Classifier.get_prob_column_name
get_prob_column_name(c) == c.prob

\* Task.fail_config: the configuration is rejected with a message
fail_config(choices) == [type |-> "fail_config", choices |-> choices]

Resolved(task) == [type |-> "task", task |-> task]

\* resolve_classifier looking at the probability columns before the names
resolve_classifier_prob_first(classifier_tasks, name) ==
    LET by_prob == SelectSeq(classifier_tasks, LAMBDA c : get_prob_column_name(c) = name)
        by_name == SelectSeq(classifier_tasks, LAMBDA c : c.name = name)
    IN  IF Len(by_prob) > 0 THEN Resolved(by_prob[1])
        ELSE IF Len(by_name) > 0 THEN Resolved(by_name[1])
        ELSE fail_config({})

\* resolve_classifier taking the first of several tasks of the same name
resolve_classifier_first_match(classifier_tasks, name) ==
    LET task == SelectSeq(classifier_tasks, LAMBDA c : c.name = name) IN
    IF Len(task) = 0
    THEN LET task2 == SelectSeq(classifier_tasks,
                                LAMBDA c : get_prob_column_name(c) = name) IN
         IF Len(task2) = 0 THEN fail_config({})
         ELSE IF Len(task2) > 1 THEN fail_config({})
         ELSE Resolved(task2[1])
    ELSE Resolved(task[1])

\* biascor.py 354-371
resolve_classifier(classifier_tasks, name) ==
    LET task == SelectSeq(classifier_tasks, LAMBDA c : c.name = name) IN
    IF Len(task) = 0
    THEN LET task2 == SelectSeq(classifier_tasks,
                                LAMBDA c : get_prob_column_name(c) = name) IN
         IF Len(task2) = 0
         THEN fail_config({get_prob_column_name(task2[k]) : k \in 1..Len(task2)})
         ELSE IF Len(task2) > 1 THEN fail_config({})
         ELSE Resolved(task2[1])
    ELSE IF Len(task) > 1
    THEN LET choices == {get_prob_column_name(task[k]) : k \in 1..Len(task)} IN
         IF Cardinality(choices) = 1 THEN Resolved(task[1])
         ELSE fail_config(choices)
    ELSE Resolved(task[1])

SpecResolveInit ==
    /\ NoManager
    /\ NoStage
    /\ returned = Pending
    /\ given \in {[fn |-> "resolve_classifier", classifier_tasks |-> ts, name |-> q] :
                     ts \in UNION {ClassifierTasks(n) : n \in 0..MaxClassifiers},
                     q \in ClassifierNames \cup ProbColumns}

call_resolve_classifier ==
    /\ returned = Pending
    /\ given.fn = "resolve_classifier"
    /\ returned' = resolve_classifier(given.classifier_tasks, given.name)
    /\ UNCHANGED <<given, managerVars, stageVars>>

SpecResolve == SpecResolveInit /\ [][call_resolve_classifier]_vars

\* The upstream classifier tasks whose name / probability column is the query
NameMatches == {c \in Elems(given.classifier_tasks) : c.name = given.name}
ColumnMatches == {c \in Elems(given.classifier_tasks) : c.prob = given.name}

\* C19: if some classifier task has the queried name, a task that is returned
\* is one of those, whatever the probability columns are, and a single such
\* task is returned; only if none has the name is a task with the queried
\* probability column returned. A returned task is one of the given tasks.
C19_ResolverPrecedence ==
    (returned # Pending /\ given.fn = "resolve_classifier") =>
        /\ returned.type = "task" => returned.task \in Elems(given.classifier_tasks)
        /\ NameMatches # {} =>
              /\ returned.type = "task" => returned.task \in NameMatches
              /\ Cardinality(NameMatches) = 1 => returned.type = "task"
        /\ NameMatches = {} =>
              /\ returned.type = "task" => returned.task \in ColumnMatches
              /\ Cardinality(ColumnMatches) = 1 => returned.type = "task"

\* A query that is the name of one task and the probability column of
\* another, resolved
C19_Witness ==
    /\ returned # Pending /\ given.fn = "resolve_classifier"
    /\ returned.type = "task"
    /\ NameMatches # {} /\ ColumnMatches \ NameMatches # {}

\* C20: if several classifier tasks have the queried name, one of them is
\* returned when they all have the same probability column; otherwise the
\* configuration is rejected with the distinct columns listed.
C20_AmbiguityPolicy ==
    (returned # Pending /\ given.fn = "resolve_classifier"
        /\ Cardinality(NameMatches) > 1) =>
        LET columns == {c.prob : c \in NameMatches} IN
        IF Cardinality(columns) = 1
        THEN returned.type = "task" /\ returned.task \in NameMatches
        ELSE returned = fail_config(columns)

\* Two tasks of the queried name with different probability columns, rejected
C20_Witness ==
    /\ returned # Pending /\ given.fn = "resolve_classifier"
    /\ Cardinality(NameMatches) > 1
    /\ Cardinality({c.prob : c \in NameMatches}) > 1
    /\ returned.type = "fail_config"

\* The identifiers a classifier reference can be resolved by: the names and
\* the probability columns of the classifier tasks built so far
ValidIdentifiers ==
    {c.name : c \in Elems(given.classifier_tasks)}
        \cup {c.prob : c \in Elems(given.classifier_tasks)}

\* C21: a query that is neither the name nor the probability column of any
\* classifier task is rejected, no task is returned, and the choices listed
\* in the rejection are the valid identifiers of the classifier tasks built
\* so far, hence not empty when there is such a task.
C21_ZeroMatchPolicy ==
    (returned # Pending /\ given.fn = "resolve_classifier"
        /\ NameMatches = {} /\ ColumnMatches = {}) =>
        /\ returned.type = "fail_config"
        /\ returned.choices \subseteq ValidIdentifiers
        /\ given.classifier_tasks # <<>> => returned.choices # {}

\* A query matching none of the classifier tasks that exist, rejected
C21_Witness ==
    /\ returned # Pending /\ given.fn = "resolve_classifier"
    /\ NameMatches = {} /\ ColumnMatches = {}
    /\ Len(given.classifier_tasks) >= 2
    /\ returned.type = "fail_config"

\* C22: if two classifier tasks of different names have the queried
\* probability column and no task has the queried name, the query is
\* rejected, neither task is returned, and the rejection lists both tasks.
C22_AmbiguousColumnRejected ==
    (returned # Pending /\ given.fn = "resolve_classifier"
        /\ NameMatches = {} /\ Cardinality(ColumnMatches) = 2
        /\ Cardinality({c.name : c \in ColumnMatches}) = 2) =>
        /\ returned.type = "fail_config"
        /\ \/ {c.name : c \in ColumnMatches} \subseteq returned.choices
           \/ {c.id : c \in ColumnMatches} \subseteq returned.choices
           \/ ColumnMatches \subseteq returned.choices

\* Two tasks of different names sharing the queried column, rejected
C22_Witness ==
    /\ returned # Pending /\ given.fn = "resolve_classifier"
    /\ NameMatches = {} /\ Cardinality(ColumnMatches) = 2
    /\ Cardinality({c.name : c \in ColumnMatches}) = 2
    /\ returned.type = "fail_config"

(***************************************************************************)
(* BiasCor.get_tasks: the BiasCor tasks of a configuration, built from the *)
(* Merger and classifier tasks constructed before                          *)
(***************************************************************************)
MaxMergers == 2    \* Merger tasks constructed before the BiasCor stage
MaxRefs == 2       \* names in one SIMFILE_BIASCOR list
MaxMuopts == 1     \* entries of MUOPTS

\* merge.py 21-30: the keys Merger.__init__ sets in self.output
Merger_output_keys ==
    {"classifiers", "classifier_names", "sim_name", "fitres_file", "fitres_dir"}

SimNames == {"SIM", "SIM_B"}

\* A Merger task as Merger.__init__ leaves it
Merger(at, sim_name) ==
    [id |-> at, name |-> sim_name,
     output |-> [classifiers |-> {}, classifier_names |-> {}, sim_name |-> sim_name,
                 fitres_file |-> sim_name \o "/FITOPT000.FITRES.gz",
                 fitres_dir |-> sim_name]]

MergeTasks(n) ==
    {s \in [1..n -> {Merger(at, sn) : at \in 1..n, sn \in SimNames}] :
        \A k \in 1..n : s[k].id = k}

\* d[key] of a dict read by a task of another stage
Missing(tasks_read, key) ==
    \E k \in 1..Len(tasks_read) : key \notin DOMAIN tasks_read[k].output

\* biascor.py 373-389
resolve_merged_fitres_files(merge_tasks, name) ==
    IF Missing(merge_tasks, "lcfit_name") THEN Raised("KeyError")
    ELSE LET task == SelectSeq(merge_tasks, LAMBDA m : m.output["lcfit_name"] = name) IN
         IF Len(task) = 0
         THEN fail_config({merge_tasks[k].output["lcfit_name"] : k \in 1..Len(merge_tasks)})
         ELSE IF Len(task) > 1
         THEN fail_config({task[k].name : k \in 1..Len(task)})
         ELSE Resolved(task[1])

\* One reference of a BIASCOR entry, in the order get_tasks resolves them
Ref(key, name) == [key |-> key, name |-> name]

RefsOf(key, names) == [k \in 1..Len(names) |-> Ref(key, names[k])]

\* biascor.py 391-431: the references resolve_conf resolves in subdict; for
\* the base configuration default is None on entry and rebound to {} (396-397)
\* before the test of line 414
resolve_conf_refs(subdict, default) ==
    LET default_dict == IF default = PyNone THEN [type |-> "dict"] ELSE default IN
    (IF subdict.CLASSIFIER # PyNone THEN <<Ref("CLASSIFIER", subdict.CLASSIFIER.s)>>
     ELSE <<>>)
    \o (IF default_dict = PyNone /\ subdict.SIMFILE_BIASCOR = <<>>
        THEN <<Ref("SIMFILE_BIASCOR is None", "")>>
        ELSE <<>>)
    \o RefsOf("SIMFILE_BIASCOR", subdict.SIMFILE_BIASCOR)
    \o RefsOf("SIMFILE_CCPRIOR", subdict.SIMFILE_CCPRIOR)

RECURSIVE muopts_refs(_, _)
muopts_refs(muopts, config) ==
    IF muopts = <<>> THEN <<>>
    ELSE resolve_conf_refs(Head(muopts), config) \o muopts_refs(Tail(muopts), config)

\* biascor.py 435-450: resolve_conf(config), the DATA section, every MUOPT
get_tasks_refs(config) ==
    resolve_conf_refs(config, PyNone)
    \o (IF config.DATA = PyNone THEN <<Ref("DATA is None", "")>>
        ELSE RefsOf("DATA", config.DATA.v))
    \o muopts_refs(config.MUOPTS, config)

\* What resolving one reference gives
resolve(merge_tasks, classifier_tasks, ref) ==
    IF ref.key = "CLASSIFIER" THEN resolve_classifier(classifier_tasks, ref.name)
    ELSE IF ref.key \in {"DATA is None", "SIMFILE_BIASCOR is None"} THEN fail_config({})
    ELSE resolve_merged_fitres_files(merge_tasks, ref.name)

\* biascor.py 39-44 and 72: BiasCor.__init__ reading the output of its DATA tasks
BiasCor_init_reads == {"sim_name", "genversion", "fitres_dirs"}

\* biascor.py 339-340
_get_biascor_output_dir(base_output_dir, stage_number, biascor_name) ==
    base_output_dir \o "/" \o stage_number \o "_BIASCOR/" \o biascor_name

\* biascor.py 16-96 as called at 452
BiasCor(name, output_dir, config, deps) ==
    IF \E key \in BiasCor_init_reads : Missing(config.DATA, key) THEN Raised("KeyError")
    ELSE IF config.DATA = <<>> THEN Raised("IndexError")
    ELSE [type |-> "task", kind |-> "BiasCor", name |-> name, output_dir |-> output_dir,
          job_name |-> name \o ".input", dependencies |-> deps]

Failed(at, ref, error) == [type |-> "failed", entry |-> at, ref |-> ref, error |-> error]

\* biascor.py 342-454: one pass of the loop over c["BIASCOR"]
get_tasks_entry(merge_tasks, classifier_tasks, at, config) ==
    LET refs == get_tasks_refs(config)
        got == [k \in 1..Len(refs) |-> resolve(merge_tasks, classifier_tasks, refs[k])]
        bad == {k \in 1..Len(refs) : got[k].type # "task"}
    IN  IF bad # {}
        THEN LET first == CHOOSE k \in bad : \A j \in bad : k <= j
             IN  Failed(at, refs[first], got[first])
        ELSE LET deps == {got[k].task : k \in 1..Len(refs)}
                 data == SelectSeq([k \in 1..Len(refs) |->
                                       IF refs[k].key = "DATA" THEN got[k].task ELSE PyNone],
                                   LAMBDA t : t # PyNone)
                 task == BiasCor(config.name,
                                 _get_biascor_output_dir("PIP", "5", config.name),
                                 [config EXCEPT !.DATA = data], deps)
             IN  IF task.type = "task" THEN task
                 ELSE Failed(at, Ref("BiasCor", config.name), task)

RECURSIVE get_tasks_from(_, _, _, _, _)
get_tasks_from(merge_tasks, classifier_tasks, entries, at, tasks_so_far) ==
    IF at > Len(entries) THEN [type |-> "tasks", tasks |-> tasks_so_far]
    ELSE LET task == get_tasks_entry(merge_tasks, classifier_tasks, at, entries[at]) IN
         IF task.type = "failed" THEN task
         ELSE get_tasks_from(merge_tasks, classifier_tasks, entries, at + 1,
                             Append(tasks_so_far, task))

\* biascor.py 334-456
BiasCor_get_tasks(c, merge_tasks, classifier_tasks) ==
    get_tasks_from(merge_tasks, classifier_tasks, c.BIASCOR, 1, <<>>)

\* The names a configuration refers to: those of tasks that can exist and
\* names no task has
ClassifierRefs == {"SNN", "TYPO"}
MergeRefs == {"SIM", "TYPO"}

PyList(v) == [type |-> "list", v |-> v]

SeqsUpTo(S, n) == UNION {[1..m -> S] : m \in 0..n}

\* The sub-dictionaries resolve_conf is given
Subdicts(n) ==
    [CLASSIFIER : {PyNone} \cup {PyStr(q) : q \in ClassifierRefs},
     SIMFILE_BIASCOR : SeqsUpTo(MergeRefs, n),
     SIMFILE_CCPRIOR : SeqsUpTo(MergeRefs, 1)]

\* c["BIASCOR"][name]
BiasCorConfigs(name, n, m) ==
    {[name |-> name, CLASSIFIER |-> sub.CLASSIFIER,
      SIMFILE_BIASCOR |-> sub.SIMFILE_BIASCOR, SIMFILE_CCPRIOR |-> sub.SIMFILE_CCPRIOR,
      DATA |-> data, MUOPTS |-> muopts] :
        sub \in Subdicts(n),
        data \in {PyNone} \cup {PyList(v) : v \in SeqsUpTo(MergeRefs, 1)},
        muopts \in SeqsUpTo({mu \in Subdicts(1) : mu.SIMFILE_CCPRIOR = <<>>}, m)}

\* c: no BIASCOR entry, one, or two entries without lists
BiasCorSections ==
    {<<>>}
    \cup {<<e>> : e \in BiasCorConfigs("BCOR", MaxRefs, MaxMuopts)}
    \cup {<<e1, e2>> : e1 \in {e \in BiasCorConfigs("BCOR", 0, 0) :
                                       e.SIMFILE_CCPRIOR = <<>>},
                        e2 \in {e \in BiasCorConfigs("BCOR_1", 0, 0) :
                                       e.SIMFILE_CCPRIOR = <<>>}}

SpecBiasCorTasksInit ==
    /\ NoManager
    /\ NoStage
    /\ returned = Pending
    /\ given \in {[fn |-> "BiasCor.get_tasks", c |-> [BIASCOR |-> section],
                    merge_tasks |-> ms, classifier_tasks |-> cs] :
                     section \in BiasCorSections,
                     ms \in UNION {MergeTasks(n) : n \in 0..MaxMergers},
                     cs \in {s \in UNION {ClassifierTasks(n) : n \in 0..1} :
                                \A k \in 1..Len(s) : s[k].prob = "PROB_" \o s[k].name}}

call_BiasCor_get_tasks ==
    /\ returned = Pending
    /\ given.fn = "BiasCor.get_tasks"
    /\ returned' = BiasCor_get_tasks(given.c, given.merge_tasks, given.classifier_tasks)
    /\ UNCHANGED <<given, managerVars, stageVars>>

SpecBiasCorTasks == SpecBiasCorTasksInit /\ [][call_BiasCor_get_tasks]_vars

\* The references of the configuration that no upstream task answers:
\* BIASCOR entry and reference, for each resolution that is rejected
Unresolvable ==
    {<<at, ref>> \in
        UNION {{<<e, get_tasks_refs(given.c.BIASCOR[e])[k]>> :
                    k \in 1..Len(get_tasks_refs(given.c.BIASCOR[e]))} :
               e \in 1..Len(given.c.BIASCOR)} :
        resolve(given.merge_tasks, given.classifier_tasks, ref).type = "fail_config"}

\* The references the rejection that ends get_tasks carries
Reported ==
    IF returned.type = "failed" THEN {<<returned.entry, returned.ref>>} ELSE {}

\* C23: when several references of the configuration are unresolvable,
\* get_tasks ends with a rejection that reports every one of them, and no
\* job has been submitted.
C23_ErrorsReportedExhaustively ==
    (returned # Pending /\ given.fn = "BiasCor.get_tasks"
        /\ Cardinality(Unresolvable) >= 2) =>
        /\ returned.type = "failed"
        /\ Unresolvable \subseteq Reported
        /\ launched = {}

\* A configuration with a CLASSIFIER and a DATA name that both match nothing,
\* rejected
C23_Witness ==
    /\ returned # Pending /\ given.fn = "BiasCor.get_tasks"
    /\ \E e \in 1..Len(given.c.BIASCOR) :
          /\ \E r \in Unresolvable : r[1] = e /\ r[2].key = "CLASSIFIER"
          /\ \E r \in Unresolvable : r[1] = e /\ r[2].key = "DATA"
    /\ returned.type = "failed" /\ returned.error.type = "fail_config"

\* The upstream tasks a reference names: the classifier tasks of that name,
\* the Merger tasks of that simulation
Named(ref) ==
    IF ref.key = "CLASSIFIER"
    THEN {t \in Elems(given.classifier_tasks) : t.name = ref.name}
    ELSE {m \in Elems(given.merge_tasks) : m.output["sim_name"] = ref.name}

\* The references declared in entry e of c["BIASCOR"]
Declared(e) == Elems(get_tasks_refs(given.c.BIASCOR[e]))

MaxFits == 2              \* entries of LCFIT
MaxClassifications == 1   \* entries of CLASSIFICATION
MaxBiasCors == 2          \* BiasCor tasks handed to CreateCov.get_tasks
MaxCovs == 2              \* entries of CREATE_COV
MaxSubdirs == 2           \* directories in output["subdirs"] of a BiasCor task

prefix == "PIP"           \* manager.py 20
output_dir == "out"       \* manager.py 24

\* str(x) in an f-string
str(x) == IF x = PyNone THEN "None" ELSE x.s

\* manager.py 153-163
_get_sim_output_dir(sim_name) ==
    output_dir \o "/0_SIM/" \o prefix \o "_" \o sim_name

_get_phot_output_dir(sim_name) ==
    output_dir \o "/0_SIM/" \o prefix \o "_" \o sim_name \o "/" \o prefix \o "_" \o sim_name

_get_lc_output_dir(sim_name, fit_name) ==
    output_dir \o "/1_LCFIT/" \o prefix \o "_" \o sim_name \o "_" \o fit_name

_get_clas_output_dir(sim_name, fit_name, clas_name) ==
    output_dir \o "/2_CLAS/" \o prefix \o "_" \o sim_name \o "_" \o fit_name
        \o "_" \o clas_name

\* The job name of a task whose class is not part of the sources
NotInSrc == "<not in src>"

\* A task as its constructor leaves it; id is its place among the tasks of
\* its kind, dependencies the places of the tasks added by add_dependency
NewTask(k, at, name, dir, job, deps) ==
    [type |-> "task", kind |-> k, id |-> at, name |-> name, output_dir |-> dir,
     job_name |-> job, dependencies |-> deps]

TaskRef(t) == [kind |-> t.kind, id |-> t.id]

RECURSIVE Flatten(_)
Flatten(ss) == IF ss = <<>> THEN <<>> ELSE Head(ss) \o Flatten(Tail(ss))

Renumber(ts) == [k \in 1..Len(ts) |-> [ts[k] EXCEPT !.id = k]]

\* manager.py 38-45
get_simulation_tasks(c) ==
    [k \in 1..Len(c.SIM) |->
        NewTask("SIM", k, c.SIM[k], _get_sim_output_dir(c.SIM[k]),
                NotInSrc, {})]

\* get_lcfit_tasks building every fit for every simulation, whatever MASK is
get_lcfit_tasks_unmasked(c, sim_tasks) ==
    Renumber(Flatten(
        [f \in 1..Len(c.LCFIT) |->
            [k \in 1..Len(sim_tasks) |->
                NewTask("LCFIT", 0, c.LCFIT[f].name,
                        _get_lc_output_dir(sim_tasks[k].name, c.LCFIT[f].name),
                        NotInSrc, {TaskRef(sim_tasks[k])})]]))

\* manager.py 47-58
get_lcfit_tasks(c, sim_tasks) ==
    Renumber(Flatten(
        [f \in 1..Len(c.LCFIT) |->
            LET fit_config == c.LCFIT[f]
                sims == SelectSeq(sim_tasks,
                            LAMBDA sim : \/ fit_config.MASK = PyNone
                                         \/ Contains(fit_config.MASK.s, sim.name))
            IN  [k \in 1..Len(sims) |->
                    NewTask("LCFIT", 0, fit_config.name,
                            _get_lc_output_dir(sims[k].name, fit_config.name),
                            NotInSrc, {TaskRef(sims[k])})]]))

\* manager.py 80-86
runs_of(needs_sim, needs_lc, sim_tasks, lcfit_tasks) ==
    IF needs_sim /\ needs_lc
    THEN [k \in 1..Len(lcfit_tasks) |->
             <<PyStr(sim_tasks[(CHOOSE d \in lcfit_tasks[k].dependencies : TRUE).id].name),
               PyStr(lcfit_tasks[k].name), {TaskRef(lcfit_tasks[k])}
                   \cup lcfit_tasks[k].dependencies>>]
    ELSE IF needs_sim
    THEN [k \in 1..Len(sim_tasks) |->
             <<PyStr(sim_tasks[k].name), PyNone, {TaskRef(sim_tasks[k])}>>]
    ELSE IF needs_lc
    THEN [k \in 1..Len(lcfit_tasks) |->
             <<PyNone, PyStr(lcfit_tasks[k].name), {TaskRef(lcfit_tasks[k])}>>]
    ELSE <<>>

\* manager.py 97: cls(clas_name, phot dir, fit dir, clas_output_dir, mode, options).
\* SuperNNovaClassifier.__init__(name, output_dir, config, dependencies, mode,
\* options) takes the fit dir, a str, as config and calls config.get
\* (supernnova.py 47)
cls(class, clas_name, phot_dir, clas_output_dir) ==
    IF class = "SuperNNovaClassifier" THEN Raised("AttributeError")
    ELSE NewTask("CLAS", 0, clas_name, clas_output_dir, NotInSrc, {})

\* manager.py 88-108: the runs of one entry, tasks being those built so far
RECURSIVE classify_runs(_, _, _, _)
classify_runs(config, runs, at, tasks_so_far) ==
    IF at > Len(runs) THEN [type |-> "tasks", tasks |-> tasks_so_far]
    ELSE LET sim_name == runs[at][1]
             fit_name == runs[at][2]
             mask == config.MASK
         IN  IF \/ sim_name # PyNone /\ ~Contains(mask, sim_name.s)
                \/ fit_name # PyNone /\ ~Contains(mask, fit_name.s)
             THEN classify_runs(config, runs, at + 1, tasks_so_far)
             ELSE LET cc == cls(config.CLASSIFIER, config.name,
                                _get_phot_output_dir(str(sim_name)),
                                _get_clas_output_dir(str(sim_name), str(fit_name),
                                                     config.name))
                      models == IF config.MODE = "predict"
                                THEN {TaskRef(tasks_so_far[k]) : k \in
                                         {j \in 1..Len(tasks_so_far) :
                                             tasks_so_far[j].name = config.MODEL.s}}
                                ELSE {}
                  IN  IF cc.type # "task" THEN cc
                      ELSE classify_runs(config, runs, at + 1,
                               Append(tasks_so_far,
                                      [cc EXCEPT !.id = Len(tasks_so_far) + 1,
                                                 !.dependencies = runs[at][3] \cup models]))

\* manager.py 60-109
RECURSIVE classification_from(_, _, _, _, _)
classification_from(c, sim_tasks, lcfit_tasks, at, tasks_so_far) ==
    IF at > Len(c.CLASSIFICATION) THEN [type |-> "tasks", tasks |-> tasks_so_far]
    ELSE LET config == c.CLASSIFICATION[at] IN
         IF config.MODE \notin {"train", "predict"} THEN Raised("AssertionError")
         ELSE IF config.MODE = "predict" /\ config.MODEL = PyNone
         THEN Raised("AssertionError")
         ELSE LET runs == runs_of(config.needs_sim, config.needs_lc, sim_tasks, lcfit_tasks)
                  built == classify_runs(config, runs, 1, tasks_so_far)
              IN  IF built.type # "tasks" THEN built
                  ELSE classification_from(c, sim_tasks, lcfit_tasks, at + 1, built.tasks)

get_classification_tasks(c, sim_tasks, lcfit_tasks) ==
    classification_from(c, sim_tasks, lcfit_tasks, 1, <<>>)

\* get_tasks with the classification tasks put first in the list
Manager_get_tasks_downstream_first(c) ==
    LET sim_tasks == get_simulation_tasks(c)
        lcfit_tasks == get_lcfit_tasks(c, sim_tasks)
        classification_tasks == get_classification_tasks(c, sim_tasks, lcfit_tasks)
    IN  IF classification_tasks.type # "tasks" THEN classification_tasks
        ELSE [type |-> "tasks",
              tasks |-> classification_tasks.tasks \o lcfit_tasks \o sim_tasks]

\* manager.py 27-36
Manager_get_tasks(c) ==
    LET sim_tasks == get_simulation_tasks(c)
        lcfit_tasks == get_lcfit_tasks(c, sim_tasks)
        classification_tasks == get_classification_tasks(c, sim_tasks, lcfit_tasks)
    IN  IF classification_tasks.type # "tasks" THEN classification_tasks
        ELSE [type |-> "tasks",
              tasks |-> sim_tasks \o lcfit_tasks \o classification_tasks.tasks]

\* A BiasCor task as BiasCor.__init__ (biascor.py 42-96) leaves it, with n
\* directories in output["subdirs"]
BiasCorTask(at, name, n) ==
    [type |-> "task", kind |-> "BiasCor", id |-> at, name |-> name,
     output |-> [blind |-> FALSE, prob_column_name |-> PyNone,
                 fit_output_dir |-> name \o "/output", NSPLITRAN |-> FALSE,
                 subdirs |-> IF n = 1 THEN <<"SALT2mu_FITJOBS">>
                             ELSE [i \in 1..n |-> "000" \o ToString(i)],
                 w_summary |-> name \o "/output/w_summary.csv",
                 m0dif_dirs |-> n, muopts |-> <<>>, hubble_plot |-> n]]

\* create_cov.py 199-200
_get_createcov_dir(base_output_dir, stage_number, name) ==
    base_output_dir \o "/" \o stage_number \o "_CREATE_COV/" \o name

\* create_cov.py 42-75 and 96-113: without SYS_SCALE among the options
\* get_sys_file_in reads biascor_dep.output["fitopt_files"]
CreateCov(name, dir, base_output_dir, options, btask, at) ==
    IF ~options.SYS_SCALE /\ "fitopt_files" \notin DOMAIN btask.output
    THEN Raised("KeyError")
    ELSE NewTask("CreateCov", 0, name, dir,
                 base_output_dir \o "_CREATE_COV_" \o name, {TaskRef(btask)})

\* create_cov.py 210-221: the tasks of one entry of CREATE_COV
createcov_entry(config, biascor_tasks, base_output_dir, stage_number) ==
    Flatten(
        [b \in 1..Len(biascor_tasks) |->
            LET btask == biascor_tasks[b]
                num == Len(btask.output["subdirs"])
            IN  IF ~Contains(config.MASK, btask.name) THEN <<>>
                ELSE [i \in 1..num |->
                        LET ii == IF num = 1 THEN "" ELSE "_" \o ToString(i)
                            name == config.name \o "_" \o btask.name \o ii
                        IN  CreateCov(name,
                                      _get_createcov_dir(base_output_dir, stage_number, name),
                                      base_output_dir, config, btask, i - 1)]])

\* create_cov.py 203-226
RECURSIVE createcov_from(_, _, _, _, _, _)
createcov_from(c, biascor_tasks, base_output_dir, stage_number, at, tasks_so_far) ==
    IF at > Len(c.CREATE_COV) THEN [type |-> "tasks", tasks |-> Renumber(tasks_so_far)]
    ELSE LET built == createcov_entry(c.CREATE_COV[at], biascor_tasks,
                                      base_output_dir, stage_number)
             bad == {k \in 1..Len(built) : built[k].type # "task"}
         IN  IF bad # {} THEN built[CHOOSE k \in bad : \A j \in bad : k <= j]
             ELSE IF Len(biascor_tasks) = 0 THEN fail_config({})
             ELSE createcov_from(c, biascor_tasks, base_output_dir, stage_number,
                                 at + 1, tasks_so_far \o built)

\* create_cov.py 194-226
CreateCov_get_tasks(c, prior_tasks, base_output_dir, stage_number) ==
    createcov_from(c, prior_tasks, base_output_dir, stage_number, 1, <<>>)

\* The keys of SIM, LCFIT, CLASSIFICATION, BIASCOR and CREATE_COV: the keys
\* of one section differ
SimKeys == {"A", "A_B"}
FitKeys == {"B_C", "C"}
ClasKeys == {"SNN", "NN"}
BiasCorKeys == {"B", "B_1"}
CovKeys == {"COV", "COV_B"}

DistinctSeqs(S, n) ==
    {s \in SeqsUpTo(S, n) : \A i, j \in 1..Len(s) : i # j => s[i] # s[j]}

KeyedSeqs(S, n) ==
    {s \in SeqsUpTo(S, n) : \A i, j \in 1..Len(s) : i # j => s[i].name # s[j].name}

\* The run configurations Manager is given
RunConfigs ==
    [SIM : DistinctSeqs(SimKeys, Cardinality(SimKeys)),
     LCFIT : KeyedSeqs([name : FitKeys, MASK : {PyNone, PyStr("B")}], MaxFits),
     CLASSIFICATION :
        KeyedSeqs({cf \in [name : ClasKeys,
                           CLASSIFIER : {"SuperNNovaClassifier", "NearestNeighborClassifier"},
                           MODE : {"train", "predict"},
                           MODEL : {PyNone, PyStr("SNN")},
                           MASK : {"", "A_B"},
                           needs_sim : BOOLEAN, needs_lc : BOOLEAN] :
                       cf.MODE = "train" => cf.MODEL = PyNone},
                  MaxClassifications)]

\* The configurations and BiasCor tasks CreateCov.get_tasks is given
CreateCovConfigs ==
    [CREATE_COV : KeyedSeqs([name : CovKeys, MASK : {"", "B_1"}, SYS_SCALE : BOOLEAN],
                            MaxCovs)]

BiasCorTasks ==
    {s \in UNION {[1..n -> {BiasCorTask(at, name, dirs) :
                               at \in 1..n, name \in BiasCorKeys, dirs \in 1..MaxSubdirs}] :
                  n \in 0..MaxBiasCors} :
        /\ \A k \in 1..Len(s) : s[k].id = k
        /\ \A i, j \in 1..Len(s) : i # j => s[i].name # s[j].name}

SpecBuildInit ==
    /\ NoManager
    /\ NoStage
    /\ returned = Pending
    /\ given \in {[fn |-> "Manager.get_tasks", c |-> c] : c \in RunConfigs}
            \cup {[fn |-> "CreateCov.get_tasks", c |-> c, prior_tasks |-> bs] :
                     c \in CreateCovConfigs, bs \in BiasCorTasks}

call_Manager_get_tasks ==
    /\ returned = Pending
    /\ given.fn = "Manager.get_tasks"
    /\ returned' = Manager_get_tasks(given.c)
    /\ UNCHANGED <<given, managerVars, stageVars>>

call_CreateCov_get_tasks ==
    /\ returned = Pending
    /\ given.fn = "CreateCov.get_tasks"
    /\ returned' = CreateCov_get_tasks(given.c, given.prior_tasks, "PIP", "6")
    /\ UNCHANGED <<given, managerVars, stageVars>>

SpecBuild == SpecBuildInit /\ [][call_Manager_get_tasks \/ call_CreateCov_get_tasks]_vars

\* The tasks the builder returned
Built == IF returned # Pending /\ returned.type = "tasks" THEN Elems(returned.tasks) ELSE {}

\* C25: any two distinct tasks of one kind that the builder returns have
\* different names, also when one entry of the configuration gives several
\* tasks.
C25_NamesUniqueWithinKind ==
    \A t, u \in Built : (t # u /\ t.kind = u.kind) => t.name # u.name

\* One LCFIT entry over two simulations, built
C25_Witness ==
    /\ returned # Pending /\ given.fn = "Manager.get_tasks"
    /\ Len(given.c.SIM) = 2 /\ Len(given.c.LCFIT) = 1
    /\ Cardinality({t \in Built : t.kind = "LCFIT"}) = 2

\* C26: no two distinct tasks that the builder returns have the same
\* output_dir.
C26_ExclusiveOutputDirs ==
    \A t, u \in Built : t # u => t.output_dir # u.output_dir

\* Two simulations and two light-curve fits whose names hold underscores,
\* every fit built for every simulation
C26_Witness ==
    /\ returned # Pending /\ given.fn = "Manager.get_tasks"
    /\ Cardinality({t \in Built : t.kind = "SIM"}) = 2
    /\ Cardinality({t \in Built : t.kind = "LCFIT"}) = 4

C28_OutputsSetBeforeRead ==
    (returned # Pending /\ given.fn = "BiasCor.get_tasks") =>
        ~(returned.type = "failed" /\ returned.error = Raised("KeyError"))

\* A DATA name resolved against the Merger tasks built before
C28_Witness ==
    /\ returned # Pending /\ given.fn = "BiasCor.get_tasks"
    /\ given.merge_tasks # <<>>
    /\ Len(given.c.BIASCOR) = 1
    /\ given.c.BIASCOR[1].DATA = PyList(<<"SIM">>)
    /\ given.c.BIASCOR[1].CLASSIFIER = PyNone
    /\ given.c.BIASCOR[1].SIMFILE_BIASCOR = <<>>

\* C29: a task that has not been run and whose dependencies are all in
\* done_tasks in a terminal state is found by get_task_index_to_run, or a
\* task declared before it is, also when some of those dependencies are
\* FINISHED_FAILURE.
C29_FailedDependencyDoesNotBlock ==
    pc = "returned" =>
        \A k \in 1..Len(tasks) :
            (\A dep \in dependencies[tasks[k]] :
                dep \in Elems(done_tasks) /\ state[dep] \in Terminal) =>
                index # None /\ index <= k

\* The task returned has a dependency that ended FINISHED_FAILURE
C29_Witness ==
    /\ pc = "returned"
    /\ index # None
    /\ \E dep \in dependencies[tasks[index]] : state[dep] = FINISHED_FAILURE
    /\ \A dep \in dependencies[tasks[index]] : state[dep] \in Terminal

\* C30: a call of run with force_refresh false on a task whose stored hash is
\* the hash of its configuration leaves every file of output_dir, the stored
\* hash among them, as it was, wipes nothing and hands no job to the batch
\* executor.
C30_NotStaleNoSideEffects ==
    (UnforcedRun /\ seen.files.hash_file = new_hash_of(kind, yaml)) =>
        /\ files = seen.files
        /\ count.submit = seen.count.submit
        /\ count.wipe = seen.count.wipe

\* An unforced run of a SuperNNova task whose stored hash is that of its job
\* script and whose directory holds a done file
C30_Witness ==
    /\ UnforcedRun /\ kind = "SuperNNova"
    /\ seen.files.hash_file = new_hash_of(kind, yaml)
    /\ seen.files.done_file # Absent
    /\ ret = PyBool(TRUE)

OrdersOf(S) ==
    {s \in [1..Cardinality(S) -> S] : \A i, j \in DOMAIN s : i # j => s[i] # s[j]}

SpecSweepInit ==
    /\ \E d \in ConstructedGraphs :
         /\ dependencies = d
         /\ \E todo \in SUBSET (DOMAIN d) : \E going \in SUBSET (DOMAIN d \ todo) :
              /\ tasks = Ascending(todo)
              /\ running_tasks \in OrdersOf(going)
              /\ done_tasks = Ascending(DOMAIN d \ (todo \cup going))
              /\ state = [t \in DOMAIN d |->
                            IF t \in todo THEN NOT_STARTED
                            ELSE IF t \in going THEN SUBMITTED ELSE FINISHED_SUCCESS]
    /\ max_jobs = PyInt(1)
    /\ num_running = 0
    /\ index = None
    /\ pc = "loop"
    /\ swept = {}
    /\ launched = <<>>
    /\ NoStage
    /\ NoCall

SpecSweep == SpecSweepInit /\ [][check_status]_vars

PlaceOf(ref) ==
    CHOOSE k \in 1..Len(returned.tasks) : TaskRef(returned.tasks[k]) = ref

\* C33: in the list Manager.get_tasks returns, every dependency of a task is
\* a task of that list standing before it; no task depends on itself.
C33_ConstructionOrderIsDAG ==
    (returned # Pending /\ given.fn = "Manager.get_tasks" /\ returned.type = "tasks") =>
        \A k \in 1..Len(returned.tasks) :
            \A dep \in returned.tasks[k].dependencies :
                /\ \E j \in 1..Len(returned.tasks) : TaskRef(returned.tasks[j]) = dep
                /\ PlaceOf(dep) < k

\* A classification task that depends on a simulation, a light-curve fit and
\* the classification task named as its MODEL
C33_Witness ==
    /\ returned # Pending /\ given.fn = "Manager.get_tasks" /\ returned.type = "tasks"
    /\ \E t \in Built :
          /\ t.kind = "CLAS"
          /\ {dep.kind : dep \in t.dependencies} = {"SIM", "LCFIT", "CLAS"}

\* The (LCFIT entry, simulation) pairs of a configuration, entries in
\* declaration order and simulations in declaration order within an entry,
\* that pass the entry's MASK
MaskedPairs(c) ==
    LET n == Len(c.SIM)
        pairs == [k \in 1..(Len(c.LCFIT) * n) |->
                     <<c.LCFIT[((k - 1) \div n) + 1], c.SIM[((k - 1) % n) + 1]>>]
    IN  SelectSeq(pairs, LAMBDA p : p[1].MASK = PyNone \/ Contains(p[1].MASK.s, p[2]))

\* The light-curve-fit tasks of the list returned, in their order
FitsBuilt == SelectSeq(returned.tasks, LAMBDA t : t.kind = "LCFIT")

classifier_dep(subdict, default_classifier, classifier_tasks) ==
    LET classifier_task == IF subdict.CLASSIFIER # PyNone
                           THEN resolve_classifier(classifier_tasks, subdict.CLASSIFIER.s)
                           ELSE PyNone
        dep == IF classifier_task # PyNone THEN classifier_task ELSE default_classifier
    IN  IF dep = PyNone THEN PyNone
        ELSE IF dep.type = "task" THEN PyStr(dep.task.name)
        ELSE dep

\* biascor.py 54-58: the base's probability column
probability_column_name(classifier) ==
    IF classifier = PyNone THEN PyNone
    ELSE PyStr(get_prob_column_name(classifier.task))

\* biascor.py 262-278, 294: output["muopt_prob_cols"], one column for each
\* overlay in the order of muopt_order
muopt_prob_cols(base_column, muopts, classifier_tasks) ==
    [k \in 1..Len(muopts) |->
        LET value == muopts[k]
            own == IF value.CLASSIFIER # PyNone
                   THEN resolve_classifier(classifier_tasks, value.CLASSIFIER.s)
                   ELSE PyNone
        IN  IF own # PyNone /\ own.type = "task"
            THEN PyStr(get_prob_column_name(own.task))
            ELSE base_column]

\* The one classifier task a CLASSIFIER value names, None when it is not set
ClassifierNamed(value) ==
    IF value = PyNone THEN PyNone
    ELSE CHOOSE t \in Named(Ref("CLASSIFIER", value.s)) : TRUE

\* For each overlay of entry e: the classifier its merge inputs are resolved
\* with and the column recorded for it are its own when it sets CLASSIFIER
\* and the base's otherwise
OverlayInherits(e) ==
    LET config == given.c.BIASCOR[e]
        base == IF config.CLASSIFIER = PyNone THEN PyNone
                ELSE resolve_classifier(given.classifier_tasks, config.CLASSIFIER.s)
        cols == muopt_prob_cols(probability_column_name(base), config.MUOPTS,
                                given.classifier_tasks)
    IN  \A k \in 1..Len(config.MUOPTS) :
            LET mu == config.MUOPTS[k]
                used == ClassifierNamed(IF mu.CLASSIFIER # PyNone THEN mu.CLASSIFIER
                                        ELSE config.CLASSIFIER)
            IN  /\ classifier_dep(mu, base, given.classifier_tasks) =
                       (IF used = PyNone THEN PyNone ELSE PyStr(used.name))
                /\ cols[k] = (IF used = PyNone THEN PyNone ELSE PyStr(used.prob))

\* The calls in which every entry has an overlay and every reference names
\* one upstream task
OverlaysResolvable ==
    /\ returned # Pending /\ given.fn = "BiasCor.get_tasks"
    /\ given.c.BIASCOR # <<>>
    /\ \A e \in 1..Len(given.c.BIASCOR) :
          /\ given.c.BIASCOR[e].MUOPTS # <<>>
          /\ \A ref \in Declared(e) :
                ref.key # "DATA is None" /\ Cardinality(Named(ref)) = 1

\* C35: for a BIASCOR entry with MUOPTS whose references each name one
\* upstream task, get_tasks builds a BiasCor task that depends on the tasks
\* every overlay's own references name; an overlay that does not set
\* CLASSIFIER has its merge inputs resolved with the base's classifier and
\* the base's probability column recorded in muopt_prob_cols, an overlay
\* that sets CLASSIFIER has its own.
C35_OverlayInheritance ==
    OverlaysResolvable =>
        /\ returned.type = "tasks"
        /\ Len(returned.tasks) = Len(given.c.BIASCOR)
        /\ \A e \in 1..Len(given.c.BIASCOR) :
              /\ \A ref \in Elems(muopts_refs(given.c.BIASCOR[e].MUOPTS, given.c.BIASCOR[e])) :
                    Named(ref) \subseteq returned.tasks[e].dependencies
              /\ OverlayInherits(e)

\* A base with a classifier and an overlay without one, with its own
\* SIMFILE_BIASCOR, handled by get_tasks
C35_Witness ==
    /\ OverlaysResolvable
    /\ given.c.BIASCOR[1].CLASSIFIER # PyNone
    /\ given.c.BIASCOR[1].MUOPTS[1].CLASSIFIER = PyNone
    /\ given.c.BIASCOR[1].MUOPTS[1].SIMFILE_BIASCOR # <<>>

\* The overlay rule by itself, whatever get_tasks returned
OverlayRuleHolds ==
    OverlaysResolvable => \A e \in 1..Len(given.c.BIASCOR) : OverlayInherits(e)

\* C36: get_tasks rejects a BIASCOR entry whose base configuration has no
\* SIMFILE_BIASCOR with the configuration error asking for it, before any
\* task is built; a MUOPT overlay without SIMFILE_BIASCOR is not rejected
\* for that.
C36_BaseRequiresSimfileBiascor ==
    (returned # Pending /\ given.fn = "BiasCor.get_tasks" /\ given.c.BIASCOR # <<>>) =>
        LET config == given.c.BIASCOR[1] IN
        /\ (/\ config.SIMFILE_BIASCOR = <<>>
            /\ config.CLASSIFIER # PyNone =>
                  Cardinality(Named(Ref("CLASSIFIER", config.CLASSIFIER.s))) = 1) =>
               returned = Failed(1, Ref("SIMFILE_BIASCOR is None", ""), fail_config({}))
        /\ config.SIMFILE_BIASCOR # <<>> =>
               ~(returned.type = "failed" /\ returned.ref.key = "SIMFILE_BIASCOR is None")

\* A base configuration without SIMFILE_BIASCOR and without CLASSIFIER,
\* with a MUOPT overlay, handled by get_tasks
C36_Witness ==
    /\ returned # Pending /\ given.fn = "BiasCor.get_tasks"
    /\ Len(given.c.BIASCOR) = 1
    /\ given.c.BIASCOR[1].SIMFILE_BIASCOR = <<>>
    /\ given.c.BIASCOR[1].CLASSIFIER = PyNone
    /\ given.c.BIASCOR[1].MUOPTS # <<>>

\* The tasks of the three lists of execute, one after the other
Listed == tasks \o running_tasks \o done_tasks

\* C37: every constructed task is in exactly one of the lists of tasks not
\* yet run, running tasks and done tasks, and in it once; a task still to be
\* run has not been executed and every other task has, so that no task is
\* executed twice.
C37_ListsPartitionTasks ==
    pc \in {"loop", "submit", "done"} =>
        /\ Len(Listed) = Cardinality(DOMAIN dependencies)
        /\ Elems(Listed) = DOMAIN dependencies
        /\ \A t \in DOMAIN dependencies :
              state[t] = NOT_STARTED <=> InList(t, tasks)

\* One task waits, one is running and one is done
C37_Witness ==
    /\ pc = "loop"
    /\ tasks # <<>> /\ running_tasks # <<>> /\ done_tasks # <<>>
    /\ \E t \in Elems(running_tasks) : state[t] = SUBMITTED

\* The stages that submit a batch job and store their hash when they do
HashAtSubmission == {"BiasCor", "CreateCov", "CosmoMC"}

\* A step of a task to which the rule applies: an unforced run that finds
\* the stored hash different from the one it computes stores the new hash; a
\* completion check that returns FINISHED_FAILURE leaves the stored hash as
\* it is; a run(false) that follows such a check of a task already run
\* submits nothing and wipes nothing.
HashKeptThroughFailure(applies) ==
    applies =>
        /\ (/\ op' = "run" /\ count'.run = count.run + 1
            /\ count'.forced = count.forced
            /\ files.hash_file # first_hash(kind, yaml, blind)) =>
               files'.hash_file = first_hash(kind, yaml, blind)
        /\ (/\ op' = "check" /\ count'.check = count.check + 1
            /\ ret' = StateValue(FINISHED_FAILURE)) =>
               files'.hash_file = files.hash_file
        /\ (/\ op' = "run" /\ count'.run = count.run + 1
            /\ count'.forced = count.forced
            /\ op = "check" /\ ret = StateValue(FINISHED_FAILURE)
            /\ count.run >= 1) =>
               /\ count'.submit = count.submit
               /\ count'.wipe = count.wipe

\* C38: in BiasCor, CreateCov and CosmoMC a stale unforced run stores the
\* hash it computed, no completion check that returns FINISHED_FAILURE
\* removes or changes the stored hash, and a run(false) after such a failure
\* of a task already run does not resubmit.
C38_HashPersistedAtSubmission ==
    [][HashKeptThroughFailure(kind \in HashAtSubmission)]_vars

\* A task was run and the completion check that followed returned
\* FINISHED_FAILURE
C38_Witness ==
    /\ kind \in HashAtSubmission
    /\ op = "check" /\ ret = StateValue(FINISHED_FAILURE)
    /\ count.run = 1 /\ seen.count.run = 1 /\ count.forced = 0

\* The same for a BiasCor task that is not blinded
HashKeptUnblinded == [][HashKeptThroughFailure(kind = "BiasCor" /\ ~blind)]_vars

\* The same for every BiasCor task
HashKeptBiasCor == [][HashKeptThroughFailure(kind = "BiasCor")]_vars

\* C39: whenever Merger's completion check returns FINISHED_FAILURE the
\* stored hash is gone afterwards, on the path of a log with ERROR or ABORT
\* and on the path without a log file, and a run(false) that follows
\* regenerates.
C39_MergerFailureInvalidatesHash ==
    [][kind = "Merger" =>
          /\ (/\ op' = "check" /\ count'.check = count.check + 1
              /\ ret' = StateValue(FINISHED_FAILURE)) =>
                 files'.hash_file = Absent
          /\ (/\ op' = "run" /\ count'.run = count.run + 1
              /\ op = "check" /\ ret = StateValue(FINISHED_FAILURE)) =>
                 count'.wipe = count.wipe + 1]_vars

\* The completion check of a Merger task with a stored hash found no log
\* file and returned FINISHED_FAILURE
C39_Witness ==
    /\ kind = "Merger"
    /\ op = "check" /\ ret = StateValue(FINISHED_FAILURE)
    /\ seen.files.logfile = Absent
    /\ seen.files.hash_file = first_hash(kind, yaml, blind)

\* The same on the path of a log with ERROR or ABORT alone
HashRemovedOnLoggedError ==
    [][(kind = "Merger" /\ files.logfile # Absent) =>
          /\ (/\ op' = "check" /\ count'.check = count.check + 1
              /\ ret' = StateValue(FINISHED_FAILURE)) =>
                 files'.hash_file = Absent
          /\ (/\ op' = "run" /\ count'.run = count.run + 1
              /\ op = "check" /\ ret = StateValue(FINISHED_FAILURE)) =>
                 count'.wipe = count.wipe + 1]_vars

====
